---- MODULE Spec2Model ----
(***************************************************************************)
(* PCIe TLP Processing Hints (TPH) requester support of one endpoint       *)
(* device, as implemented by the historical versions of                    *)
(* drivers/pci/pcie/tph.c kept in this repository:                         *)
(*                                                                         *)
(*   "enable" : pcie_enable_tph / pcie_disable_tph / pcie_tph_modes /      *)
(*              pcie_tph_enabled / pcie_tph_set_st_entry /                 *)
(*              pcie_tph_get_cpu_st                                        *)
(*   "acpi"   : pcie_tph_set_st (int) / pcie_tph_get_st_from_acpi /        *)
(*              pcie_tph_intr_vec_supported / pcie_tph_set_nostmode /      *)
(*              pcie_tph_disable                                           *)
(*   "bool"   : pcie_tph_set_st (bool) / tph_set_dev_nostmode /            *)
(*              pcie_tph_disable, built on tph_set_reg_field_u32           *)
(*                                                                         *)
(* A behaviour is one device driven through the public operations of one   *)
(* version.  Every operation is one atomic action; the register writes it  *)
(* performs are recorded, in program order, in last.log.                   *)
(***************************************************************************)
EXTENDS Integers, Sequences, FiniteSets, TLC

(***************************************************************************)
(* Bounds of the model.                                                    *)
(***************************************************************************)
\* largest value of the capability register's ST Table Size field
MaxStSize == 1
\* largest mode argument handed to pcie_enable_tph
MaxModeArg == 7

(***************************************************************************)
(* errno values and register layout (include/uapi/linux/pci_regs.h).       *)
(***************************************************************************)
EINVAL == 22
EBUSY == 16
ENOTSUPP == 524
ENODEV == 19
ENXIO == 6

\* a bit field of a register: its lowest bit and its width
Field(shift, width) == [shift |-> shift, width |-> width]

PCI_TPH_CAP_NO_ST == Field(0, 1)
PCI_TPH_CAP_INT_VEC == Field(1, 1)
PCI_TPH_CAP_DEV_SPEC == Field(2, 1)
PCI_TPH_CAP_EXT_TPH == Field(8, 1)
PCI_TPH_CAP_LOC_MASK == Field(9, 2)
PCI_TPH_CAP_ST_MASK == Field(16, 11)
PCI_TPH_CTRL_MODE_SEL_MASK == Field(0, 3)
PCI_TPH_CTRL_REQ_EN_MASK == Field(8, 2)
PCI_EXP_DEVCAP2_TPH_COMP_MASK == Field(12, 2)

PCI_TPH_LOC_CAP == 512
PCI_TPH_LOC_MSIX == 1024

PCI_TPH_NO_ST_MODE == 0
PCI_TPH_INT_VEC_MODE == 1
PCI_TPH_DEV_SPEC_MODE == 2

PCI_TPH_REQ_DISABLE == 0
PCI_TPH_REQ_TPH_ONLY == 1
PCI_TPH_REQ_EXT_TPH == 3

\* capability offset found by pci_find_ext_capability when the device has one
TphCapOffset == 256

(***************************************************************************)
(* Bit arithmetic on register values (non-negative integers).              *)
(***************************************************************************)
RECURSIVE BitAnd(_, _)
BitAnd(a, b) ==
    IF a = 0 \/ b = 0 THEN 0
    ELSE (a % 2) * (b % 2) + 2 * BitAnd(a \div 2, b \div 2)

\* the mask of a field as a number
Mask(f) == (2 ^ f.width - 1) * 2 ^ f.shift

\* FIELD_GET(mask, reg); register values of the model stay below 2^31, so
\* a field reaching bit 31 is whatever lies above its lowest bit
FIELD_GET(f, reg) ==
    IF f.shift + f.width >= 31 THEN reg \div 2 ^ f.shift
    ELSE (reg \div 2 ^ f.shift) % 2 ^ f.width

\* FIELD_PREP(mask, val)
FIELD_PREP(f, val) ==
    IF f.shift + f.width >= 31 THEN val * 2 ^ f.shift
    ELSE (val % 2 ^ f.width) * 2 ^ f.shift

\* reg & ~mask
ClearField(f, reg) == reg - FIELD_GET(f, reg) * 2 ^ f.shift

\* min() of <linux/minmax.h>
Min(a, b) == IF a < b THEN a ELSE b

VARIABLES
    version,        \* which version of tph.c drives the device
    tph_cap,        \* pdev->tph_cap: capability offset, 0 = no TPH capability
    tph_enabled,    \* pdev->tph_enabled
    tph_mode,       \* pdev->tph_mode
    tph_req_type,   \* pdev->tph_req_type
    msix_enabled,   \* pdev->msix_enabled
    capReg,         \* TPH Requester Capability register (read-only hardware)
    ctrlReg,        \* TPH Requester Control register
    stTable,        \* ST table in the capability structure: entry -> 16-bit word
    vecCtrl,        \* MSI-X table: entry -> vector control dword
    msiDescs,       \* MSI indices that have an associated msi_desc
    rootPort,       \* the device's Root Port as the lookups see it
    optNoTph,       \* pci_tph_disabled(): "notph" on the command line
    optNoStMode,    \* pci_tph_nostmode(): "nostmode" on the command line
    dsm,            \* what the platform's _DSM method answers
    cfgFault,       \* which configuration accesses fail on the bus
    threads,        \* callers inside pcie_tph_write_st: position and locals
    serialized,     \* the callers serialize their calls on the device
    last            \* the last operation: name, arguments, result, writes

hwVars == <<capReg, ctrlReg, stTable, vecCtrl>>
devVars == <<tph_cap, tph_enabled, tph_mode, tph_req_type, msix_enabled>>
envVars == <<version, msiDescs, rootPort, optNoTph, optNoStMode, dsm, cfgFault>>
callerVars == <<threads, serialized>>
vars == <<version, tph_cap, tph_enabled, tph_mode, tph_req_type, msix_enabled,
          capReg, ctrlReg, stTable, vecCtrl, msiDescs, rootPort, optNoTph,
          optNoStMode, dsm, cfgFault, threads, serialized, last>>

(***************************************************************************)
(* The mutable state an operation works on, threaded through the helpers   *)
(* as one record; Cur is the state at the time an operation is called.     *)
(***************************************************************************)
Cur ==
    [ctrl |-> ctrlReg, st |-> stTable, vec |-> vecCtrl,
     tph_enabled |-> tph_enabled, tph_mode |-> tph_mode,
     tph_req_type |-> tph_req_type, log |-> <<>>, lk |-> <<>>]

\* an operation's outcome: the state it leaves and the value it returns
Ret(s, r) == [s |-> s, ret |-> r]

\* one entry of the write log: what was written, where, and the control
\* register's TPH Requester Enable field at the moment of the write
LogEntry(s, kind, idx, val) ==
    [k |-> kind, i |-> idx, v |-> val,
     en |-> FIELD_GET(PCI_TPH_CTRL_REQ_EN_MASK, s.ctrl)]

\* pci_read_config_dword(pdev, pdev->tph_cap + PCI_TPH_CAP, &reg)
ReadCapReg == [ret |-> 0, val |-> capReg]

\* the PCIBIOS_* status a failing configuration access returns
PCIBIOS_DEVICE_NOT_FOUND == 134

\* the status of a read of the TPH control register
CtrlReadStatus ==
    IF cfgFault = "ctrl_read" THEN PCIBIOS_DEVICE_NOT_FOUND ELSE 0

\* pci_read_config_dword(pdev, pdev->tph_cap + PCI_TPH_CTRL, &reg); reads
\* fail only where the register accessors run on their own (SpecField),
\* and those test the status before they look at the value
ReadCtrlReg(s) == [ret |-> CtrlReadStatus, val |-> s.ctrl]

\* the status of a write of the TPH control register
CtrlWriteStatus ==
    IF cfgFault = "ctrl_write" THEN PCIBIOS_DEVICE_NOT_FOUND ELSE 0

\* pci_write_config_dword(pdev, pdev->tph_cap + PCI_TPH_CTRL, val): a write
\* that fails on the bus leaves the register as it is
WriteCtrlReg(s, val) ==
    IF CtrlWriteStatus # 0 THEN s
    ELSE [s EXCEPT !.ctrl = val,
                   !.log = Append(@, LogEntry(s, "ctrl", 0, val))]

(***************************************************************************)
(* Capability prober.                                                      *)
(***************************************************************************)
get_st_modes ==
    BitAnd(ReadCapReg.val,
           Mask(PCI_TPH_CAP_NO_ST) + Mask(PCI_TPH_CAP_INT_VEC)
               + Mask(PCI_TPH_CAP_DEV_SPEC))

\* faulty variant: the Root Port lookup and the read status are not checked
RpCompleterUnchecked ==
    FIELD_GET(PCI_EXP_DEVCAP2_TPH_COMP_MASK, rootPort.devcap2)

get_rp_completer_type ==
    IF ~rootPort.found THEN 0
    ELSE IF ~rootPort.readOk THEN 0
    ELSE FIELD_GET(PCI_EXP_DEVCAP2_TPH_COMP_MASK, rootPort.devcap2)

(***************************************************************************)
(* Mode/enable state machine of the "enable" version.                      *)
(***************************************************************************)
pcie_tph_enabled == tph_enabled

\* faulty variant: answers from the session instead of the hardware
ModesOfSession ==
    IF tph_cap = 0 THEN 0
    ELSE IF tph_enabled THEN 2 ^ tph_mode
    ELSE get_st_modes

pcie_tph_modes == IF tph_cap = 0 THEN 0 ELSE get_st_modes

\* faulty variant: the enabled flag is left set
DisableKeepsEnabled(s) ==
    IF tph_cap = 0 THEN s
    ELSE IF ~s.tph_enabled THEN s
    ELSE [WriteCtrlReg(s, 0) EXCEPT !.tph_mode = 0, !.tph_req_type = 0]

\* faulty variant: the control register is cleared whether enabled or not
DisableUnchecked(s) ==
    IF tph_cap = 0 THEN s
    ELSE [WriteCtrlReg(s, 0) EXCEPT !.tph_mode = 0, !.tph_req_type = 0,
                                    !.tph_enabled = FALSE]

pcie_disable_tph(s) ==
    IF tph_cap = 0 THEN s
    ELSE IF ~s.tph_enabled THEN s
    ELSE [WriteCtrlReg(s, 0) EXCEPT !.tph_mode = 0, !.tph_req_type = 0,
                                    !.tph_enabled = FALSE]

\* faulty variant: the mode is not checked against the device's modes
SelectModeUnchecked(mode, dev_modes) ==
    IF mode = Mask(PCI_TPH_CAP_INT_VEC) THEN PCI_TPH_INT_VEC_MODE
    ELSE IF mode = Mask(PCI_TPH_CAP_DEV_SPEC) THEN PCI_TPH_DEV_SPEC_MODE
    ELSE IF mode = Mask(PCI_TPH_CAP_NO_ST) THEN PCI_TPH_NO_ST_MODE
    ELSE -1

\* faulty variant: any supported bit of the mode argument selects a mode
SelectModeAnyBit(mode, dev_modes) ==
    LET both == BitAnd(mode, dev_modes)
    IN  IF both = 0 THEN -1
        ELSE IF BitAnd(both, Mask(PCI_TPH_CAP_INT_VEC)) # 0
             THEN PCI_TPH_INT_VEC_MODE
        ELSE IF BitAnd(both, Mask(PCI_TPH_CAP_DEV_SPEC)) # 0
             THEN PCI_TPH_DEV_SPEC_MODE
        ELSE PCI_TPH_NO_ST_MODE

\* "Check ST mode comptability" and "Select a supported mode": the mode
\* recorded for a mode argument, or -1 where pcie_enable_tph returns -EINVAL
SelectMode(mode, dev_modes) ==
    IF BitAnd(mode, dev_modes) = 0 THEN -1
    ELSE IF mode = Mask(PCI_TPH_CAP_INT_VEC) THEN PCI_TPH_INT_VEC_MODE
    ELSE IF mode = Mask(PCI_TPH_CAP_DEV_SPEC) THEN PCI_TPH_DEV_SPEC_MODE
    ELSE IF mode = Mask(PCI_TPH_CAP_NO_ST) THEN PCI_TPH_NO_ST_MODE
    ELSE -1

\* "Get req_type supported by device": reg is assigned the return value of
\* pci_read_config_dword, not the register it read
DevReqType ==
    LET reg == ReadCapReg.ret
    IN  IF FIELD_GET(PCI_TPH_CAP_EXT_TPH, reg) # 0 THEN PCI_TPH_REQ_EXT_TPH
        ELSE PCI_TPH_REQ_TPH_ONLY

\* faulty variant: the larger of the two
LargerReqType(dev_req_type, rp_req_type) ==
    IF dev_req_type > rp_req_type THEN dev_req_type ELSE rp_req_type

\* "Final req_type is the smallest value of two"
FinalReqType(dev_req_type, rp_req_type) == Min(dev_req_type, rp_req_type)

\* "Write them into TPH control register"
EnableCtrlValue(reg, mode, req_type) ==
    LET r1 == ClearField(PCI_TPH_CTRL_MODE_SEL_MASK, reg)
                 + FIELD_PREP(PCI_TPH_CTRL_MODE_SEL_MASK, mode)
    IN  ClearField(PCI_TPH_CTRL_REQ_EN_MASK, r1)
            + FIELD_PREP(PCI_TPH_CTRL_REQ_EN_MASK, req_type)

\* faulty variant: an enabled device is enabled again
NeverBusy(s) == FALSE

\* "if (pdev->tph_enabled) return -EBUSY"
EnableBusy(s) == s.tph_enabled

pcie_enable_tph(s, mode) ==
    IF tph_cap = 0 THEN Ret(s, -EINVAL)
    ELSE IF EnableBusy(s) THEN Ret(s, -EBUSY)
    ELSE LET sel == SelectMode(mode, get_st_modes)
         IN  IF sel = -1 THEN Ret(s, -EINVAL)
             ELSE LET s1 == [s EXCEPT !.tph_mode = sel]
                      s2 == [s1 EXCEPT !.tph_req_type = DevReqType]
                      rp_req_type == get_rp_completer_type
                      s3 == [s2 EXCEPT !.tph_req_type =
                                FinalReqType(s2.tph_req_type, rp_req_type)]
                  IN  IF s3.tph_req_type = PCI_TPH_REQ_DISABLE
                      THEN Ret(s3, -ENOTSUPP)
                      ELSE LET reg == ReadCtrlReg(s3).val
                               s4 == WriteCtrlReg(s3,
                                        EnableCtrlValue(reg, s3.tph_mode,
                                                        s3.tph_req_type))
                           IN  Ret([s4 EXCEPT !.tph_enabled = TRUE], 0)

(***************************************************************************)
(* Steering-tag stores and the helpers shared by the "enable" and "acpi"   *)
(* versions.                                                               *)
(***************************************************************************)
\* slot indices a caller may pass: every in-range one and one beyond
Slots == 0 .. (MaxStSize + 1)

\* writel(val, vec_ctrl) on the vector control register of MSI-X entry idx
\* readl / writel of the vector control register of entry idx
WriteVecCtrl(s, idx, val) ==
    [s EXCEPT !.vec[idx] = val,
              !.log = Append(@, LogEntry(s, "vec", idx, val)),
              !.lk = Append(@, "rmw")]

\* msi_lock_descs / msi_unlock_descs
MsiLock(s) == [s EXCEPT !.lk = Append(@, "lock")]
MsiUnlock(s) == [s EXCEPT !.lk = Append(@, "unlock")]

\* pci_write_config_word(pdev, tph_cap + PCI_TPH_BASE_SIZEOF + idx * 2, tag)
WriteStWord(s, idx, tag) ==
    IF cfgFault = "st_write" THEN Ret(s, PCIBIOS_DEVICE_NOT_FOUND)
    ELSE Ret([s EXCEPT !.st[idx] = tag,
                       !.log = Append(@, LogEntry(s, "st", idx, tag))], 0)

\* "Update the TPH Requester Enable field of TPH Control Register"
set_ctrl_reg_req_en(s, req_type) ==
    LET reg == ReadCtrlReg(s).val
    IN  WriteCtrlReg(s, ClearField(PCI_TPH_CTRL_REQ_EN_MASK, reg)
                            + FIELD_PREP(PCI_TPH_CTRL_REQ_EN_MASK, req_type))

\* "Update the ST Mode Select field of TPH Control Register"
set_ctrl_reg_mode_sel(s, st_mode) ==
    LET reg == ReadCtrlReg(s).val
    IN  WriteCtrlReg(s, ClearField(PCI_TPH_CTRL_MODE_SEL_MASK, reg)
                            + FIELD_PREP(PCI_TPH_CTRL_MODE_SEL_MASK, st_mode))

get_st_table_loc == FIELD_GET(PCI_TPH_CAP_LOC_MASK, ReadCapReg.val)

\* the msi_desc found by msi_for_each_desc for an index: TRUE if there is one
MsiDescFound(idx) == idx \in msiDescs

\* faulty variant: the lower 16 bits are not kept
MergeTagClobber(val, tag) == (tag % 65536) * 65536

\* the vector control value with the tag merged into its upper 16 bits
MergeTag(val, tag) == (val % 65536) + (tag % 65536) * 65536

(***************************************************************************)
(* Steering-tag table writer of the "enable" version.                      *)
(***************************************************************************)
get_st_table_size ==
    IF FIELD_PREP(PCI_TPH_CAP_LOC_MASK, get_st_table_loc) # PCI_TPH_LOC_CAP
    THEN 0
    ELSE FIELD_GET(PCI_TPH_CAP_ST_MASK, ReadCapReg.val) + 1

write_tag_to_msix(s, msix_idx, tag) ==
    LET s1 == MsiLock(s)
    IN  IF ~MsiDescFound(msix_idx) THEN Ret(MsiUnlock(s1), -ENXIO)
        ELSE Ret(MsiUnlock(WriteVecCtrl(s1, msix_idx,
                                        MergeTag(s1.vec[msix_idx], tag))), 0)

write_tag_to_st_table(s, index, tag) ==
    IF index >= get_st_table_size THEN Ret(s, -ENXIO)
    ELSE WriteStWord(s, index, tag)

\* the switch on the ST table location
WriteTagByLoc(s, index, tag) ==
    LET loc == FIELD_PREP(PCI_TPH_CAP_LOC_MASK, get_st_table_loc)
    IN  IF loc = PCI_TPH_LOC_MSIX THEN write_tag_to_msix(s, index, tag)
        ELSE IF loc = PCI_TPH_LOC_CAP THEN write_tag_to_st_table(s, index, tag)
        ELSE Ret(s, -EINVAL)

\* faulty variant: requests are disabled before the session is looked at
SetStEntryDisableFirst(s, index, tag) ==
    IF tph_cap = 0 THEN Ret(s, -EINVAL)
    ELSE LET s1 == set_ctrl_reg_req_en(s, PCI_TPH_REQ_DISABLE)
         IN  IF ~s.tph_enabled THEN Ret(s1, -EINVAL)
             ELSE IF s.tph_mode = PCI_TPH_NO_ST_MODE THEN Ret(s1, 0)
             ELSE LET w == WriteTagByLoc(s1, index, tag)
                  IN  IF w.ret # 0 THEN Ret(pcie_disable_tph(w.s), w.ret)
                      ELSE Ret(set_ctrl_reg_req_en(w.s, w.s.tph_mode), 0)

\* faulty variant: a failed tag write returns without pcie_disable_tph
SetStEntryNoCleanup(s, index, tag) ==
    IF tph_cap = 0 THEN Ret(s, -EINVAL)
    ELSE IF ~s.tph_enabled THEN Ret(s, -EINVAL)
    ELSE IF s.tph_mode = PCI_TPH_NO_ST_MODE THEN Ret(s, 0)
    ELSE LET s1 == set_ctrl_reg_req_en(s, PCI_TPH_REQ_DISABLE)
             w == WriteTagByLoc(s1, index, tag)
         IN  IF w.ret # 0 THEN w
             ELSE Ret(set_ctrl_reg_req_en(w.s, w.s.tph_mode), 0)

pcie_tph_set_st_entry(s, index, tag) ==
    IF tph_cap = 0 THEN Ret(s, -EINVAL)
    ELSE IF ~s.tph_enabled THEN Ret(s, -EINVAL)
    ELSE IF s.tph_mode = PCI_TPH_NO_ST_MODE THEN Ret(s, 0)
    ELSE LET s1 == set_ctrl_reg_req_en(s, PCI_TPH_REQ_DISABLE)
             w == WriteTagByLoc(s1, index, tag)
         IN  IF w.ret # 0 THEN Ret(pcie_disable_tph(w.s), w.ret)
             ELSE Ret(set_ctrl_reg_req_en(w.s, w.s.tph_mode), 0)

(***************************************************************************)
(* ACPI steering-tag resolver.  The 64-bit st_info reply is kept as its    *)
(* two 32-bit halves: vm (bits 0..31) and pm (bits 32..63).                *)
(***************************************************************************)
TPH_MEM_TYPE_VM == 0
TPH_MEM_TYPE_PM == 1

ST_VALID == Field(0, 1)
XST_VALID == Field(1, 1)
ST_TAG == Field(8, 8)
XST_TAG == Field(16, 16)

\* faulty variant: the valid bits are not looked at
ExtractIgnoringValid(mem_type, req_type, info) ==
    LET half == IF mem_type = TPH_MEM_TYPE_VM THEN info.vm ELSE info.pm
    IN  IF mem_type \notin {TPH_MEM_TYPE_VM, TPH_MEM_TYPE_PM} THEN 0
        ELSE IF req_type = PCI_TPH_REQ_TPH_ONLY THEN FIELD_GET(ST_TAG, half)
        ELSE IF req_type = PCI_TPH_REQ_EXT_TPH THEN FIELD_GET(XST_TAG, half)
        ELSE 0

tph_extract_tag(mem_type, req_type, info) ==
    LET half == IF mem_type = TPH_MEM_TYPE_VM THEN info.vm ELSE info.pm
    IN  IF mem_type \notin {TPH_MEM_TYPE_VM, TPH_MEM_TYPE_PM} THEN 0
        ELSE IF req_type = PCI_TPH_REQ_TPH_ONLY
        THEN IF FIELD_GET(ST_VALID, half) # 0 THEN FIELD_GET(ST_TAG, half)
             ELSE 0
        ELSE IF req_type = PCI_TPH_REQ_EXT_TPH
        THEN IF FIELD_GET(XST_VALID, half) # 0 THEN FIELD_GET(XST_TAG, half)
             ELSE 0
        ELSE 0

\* AE_OK with the reply, or AE_ERROR; the first eight bytes at the buffer
\* pointer are taken as the reply whatever the buffer's length
tph_invoke_dsm ==
    IF ~dsm.has THEN [ok |-> FALSE, info |-> [vm |-> 0, pm |-> 0]]
    ELSE IF dsm.kind = "none" THEN [ok |-> FALSE, info |-> [vm |-> 0, pm |-> 0]]
    ELSE IF dsm.kind # "buffer" THEN [ok |-> FALSE, info |-> [vm |-> 0, pm |-> 0]]
    ELSE [ok |-> TRUE, info |-> [vm |-> dsm.vm, pm |-> dsm.pm]]

\* the ACPI handle of the Root Port's host bridge can be looked up
RootPortHandleFound == rootPort.found /\ rootPort.bridge

\* result of a tag query: the status, and the tag stored through *tag
\* (set = FALSE: *tag was not written)
TagRet(r, isSet, tag) == [ret |-> r, set |-> isSet, tag |-> tag]

\* "enable" version: the tag for the request type recorded at enable time
pcie_tph_get_cpu_st(s, mem_type) ==
    IF ~RootPortHandleFound THEN TagRet(-ENODEV, FALSE, 0)
    ELSE LET d == tph_invoke_dsm
         IN  IF ~d.ok THEN TagRet(-EINVAL, TRUE, 0)
             ELSE TagRet(0, TRUE,
                         tph_extract_tag(mem_type, s.tph_req_type, d.info))

\* "acpi" version
pcie_tph_get_st_from_acpi(mem_type, req_type) ==
    IF tph_cap = 0 THEN TagRet(-ENODEV, FALSE, 0)
    ELSE IF ~RootPortHandleFound THEN TagRet(-ENODEV, FALSE, 0)
    ELSE LET d == tph_invoke_dsm
         IN  IF ~d.ok THEN TagRet(-EINVAL, TRUE, 0)
             ELSE TagRet(0, TRUE, tph_extract_tag(mem_type, req_type, d.info))

(***************************************************************************)
(* Steering-tag table writer and mode shortcuts of the "acpi" version.     *)
(***************************************************************************)
int_vec_mode_supported == FIELD_GET(PCI_TPH_CAP_INT_VEC, ReadCapReg.val) # 0

msix_index_in_bound(msi_idx) ==
    msi_idx <= FIELD_GET(PCI_TPH_CAP_ST_MASK, ReadCapReg.val)

\* faulty variant: the descriptor-not-found path returns with the lock held
TagToMsixLeavesLocked(s, msi_idx, tag) ==
    IF ~msix_index_in_bound(msi_idx) THEN Ret(s, -EINVAL)
    ELSE LET s1 == MsiLock(s)
         IN  IF ~MsiDescFound(msi_idx) THEN Ret(s1, -ENXIO)
             ELSE Ret(MsiUnlock(WriteVecCtrl(s1, msi_idx,
                                    MergeTag(s1.vec[msi_idx], tag))), 0)

tph_write_tag_to_msix(s, msi_idx, tag) ==
    IF ~msix_index_in_bound(msi_idx) THEN Ret(s, -EINVAL)
    ELSE LET s1 == MsiLock(s)
         IN  IF ~MsiDescFound(msi_idx) THEN Ret(MsiUnlock(s1), -ENXIO)
             ELSE Ret(MsiUnlock(WriteVecCtrl(s1, msi_idx,
                                    MergeTag(s1.vec[msi_idx], tag))), 0)

get_rp_completer_support == get_rp_completer_type

rp_completer_support_ok(req_cap) == ~(req_cap > get_rp_completer_support)

\* faulty variant: requests are not disabled
DisableSkipped(s) == s

pcie_tph_disable(s) ==
    IF tph_cap = 0 THEN s
    ELSE set_ctrl_reg_req_en(s, PCI_TPH_REQ_DISABLE)

\* faulty variant: the capability offset is not checked
SetNoStModeUnchecked(s) ==
    set_ctrl_reg_req_en(set_ctrl_reg_mode_sel(s, PCI_TPH_NO_ST_MODE),
                        PCI_TPH_REQ_TPH_ONLY)

\* faulty variant: the register is written as a whole, not field by field
SetNoStModeWholeReg(s) ==
    IF tph_cap = 0 THEN s
    ELSE WriteCtrlReg(s, FIELD_PREP(PCI_TPH_CTRL_REQ_EN_MASK,
                                    PCI_TPH_REQ_TPH_ONLY))

pcie_tph_set_nostmode(s) ==
    IF tph_cap = 0 THEN s
    ELSE set_ctrl_reg_req_en(set_ctrl_reg_mode_sel(s, PCI_TPH_NO_ST_MODE),
                             PCI_TPH_REQ_TPH_ONLY)

\* faulty variant: MSI-X and the notph option are not looked at
IntrVecOfHardware == ~(tph_cap = 0 \/ ~int_vec_mode_supported)

pcie_tph_intr_vec_supported ==
    ~(tph_cap = 0 \/ optNoTph \/ ~msix_enabled \/ ~int_vec_mode_supported)

\* faulty variant: the command line options are not consulted
WriteStNeededDespitePolicy ==
    tph_cap = 0 \/ ~msix_enabled \/ ~int_vec_mode_supported

\* "setting ST isn't needed - not an error, just return OK"
WriteStNotNeeded ==
    tph_cap = 0 \/ optNoTph \/ optNoStMode \/ ~msix_enabled
        \/ ~int_vec_mode_supported

\* "setting ST is incorrect in the following cases - return error"
WriteStIncorrect(msix_idx, req_type) ==
    ~msix_index_in_bound(msix_idx) \/ ~rp_completer_support_ok(req_type)

\* the switch on the ST table location
WriteStByLoc(s, msix_idx, tag) ==
    LET loc == FIELD_PREP(PCI_TPH_CAP_LOC_MASK, get_st_table_loc)
    IN  IF loc = PCI_TPH_LOC_MSIX THEN tph_write_tag_to_msix(s, msix_idx, tag)
        ELSE IF loc = PCI_TPH_LOC_CAP THEN WriteStWord(s, msix_idx, tag)
        ELSE Ret(s, -EINVAL)

\* faulty variant: the mode is left as it was and basic requests are enabled
ReEnableBasic(s, req_type) == set_ctrl_reg_req_en(s, PCI_TPH_REQ_TPH_ONLY)

\* faulty variant: requests are enabled before the mode is selected
ReEnableRequestsFirst(s, req_type) ==
    set_ctrl_reg_mode_sel(set_ctrl_reg_req_en(s, req_type),
                          PCI_TPH_INT_VEC_MODE)

\* "re-enable interrupt vector mode"
ReEnable(s, req_type) ==
    set_ctrl_reg_req_en(set_ctrl_reg_mode_sel(s, PCI_TPH_INT_VEC_MODE),
                        req_type)

\* faulty variant: requests are enabled again whatever the tag write returned
WriteStAlwaysReEnable(s, msix_idx, req_type, tag) ==
    IF WriteStNotNeeded THEN Ret(s, 0)
    ELSE IF WriteStIncorrect(msix_idx, req_type) THEN Ret(s, -EINVAL)
    ELSE LET s1 == pcie_tph_disable(s)
             w == WriteStByLoc(s1, msix_idx, tag)
         IN  Ret(ReEnable(w.s, req_type), w.ret)

\* faulty variant: a case in which no tag is needed is an error
WriteStUnmetIsError(s, msix_idx, req_type, tag) ==
    IF WriteStNotNeeded \/ WriteStIncorrect(msix_idx, req_type)
    THEN Ret(s, -EINVAL)
    ELSE LET s1 == pcie_tph_disable(s)
             w == WriteStByLoc(s1, msix_idx, tag)
         IN  IF w.ret = 0 THEN Ret(ReEnable(w.s, req_type), 0)
             ELSE Ret(w.s, w.ret)

pcie_tph_write_st(s, msix_idx, req_type, tag) ==
    IF WriteStNotNeeded THEN Ret(s, 0)
    ELSE IF WriteStIncorrect(msix_idx, req_type) THEN Ret(s, -EINVAL)
    ELSE LET s1 == pcie_tph_disable(s)
             w == WriteStByLoc(s1, msix_idx, tag)
         IN  IF w.ret = 0 THEN Ret(ReEnable(w.s, req_type), 0)
             ELSE Ret(w.s, w.ret)

\* faulty variant: the tag is written whatever the resolution returned
SetStIgnoringResolution(s, msix_idx, mem_type, req_type) ==
    IF tph_cap = 0 THEN Ret(s, -ENODEV)
    ELSE LET t == pcie_tph_get_st_from_acpi(mem_type, req_type)
         IN  pcie_tph_write_st(s, msix_idx, req_type, t.tag)

pcie_tph_set_st(s, msix_idx, mem_type, req_type) ==
    IF tph_cap = 0 THEN Ret(s, -ENODEV)
    ELSE LET t == pcie_tph_get_st_from_acpi(mem_type, req_type)
         IN  IF t.ret # 0 THEN Ret(s, t.ret)
             ELSE pcie_tph_write_st(s, msix_idx, req_type, t.tag)

(***************************************************************************)
(* The "bool" version: register accessor, precondition check and table     *)
(* writer.  Its operators carry the prefix v1_ where a later version       *)
(* reuses the name.                                                        *)
(***************************************************************************)
\* the mask ~0L with shift 0
WHOLE_REG == Field(0, 32)

\* ST table location encodings the "bool" version switches on, compared
\* with the location field read by tph_get_table_location
V1_PCI_TPH_LOC_CAP == 1
V1_PCI_TPH_LOC_MSIX == 2

\* faulty variant: the bits outside the mask are not kept
SetRegFieldClobber(s, mask, field) ==
    IF tph_cap = 0 THEN Ret(s, -EINVAL)
    ELSE LET rd == ReadCtrlReg(s)
         IN  IF rd.ret # 0 THEN Ret(s, rd.ret)
             ELSE Ret(WriteCtrlReg(s, FIELD_PREP(mask, field)),
                      CtrlWriteStatus)

\* on the TPH control register
tph_set_reg_field_u32(s, mask, field) ==
    IF tph_cap = 0 THEN Ret(s, -EINVAL)
    ELSE LET rd == ReadCtrlReg(s)
         IN  IF rd.ret # 0 THEN Ret(s, rd.ret)
             ELSE Ret(WriteCtrlReg(s, ClearField(mask, rd.val)
                                         + FIELD_PREP(mask, field)),
                      CtrlWriteStatus)

\* on a register read `rd`: the status and *field
tph_get_reg_field_u32(rd, mask) ==
    IF tph_cap = 0 THEN [ret |-> -EINVAL, field |-> 0]
    ELSE IF rd.ret # 0 THEN [ret |-> rd.ret, field |-> 0]
    ELSE [ret |-> 0, field |-> FIELD_GET(mask, rd.val)]

tph_get_table_size == tph_get_reg_field_u32(ReadCapReg, PCI_TPH_CAP_ST_MASK)

tph_int_vec_mode_supported ==
    tph_get_reg_field_u32(ReadCapReg, PCI_TPH_CAP_INT_VEC).ret = 0

tph_get_table_location ==
    tph_get_reg_field_u32(ReadCapReg, PCI_TPH_CAP_LOC_MASK)

pcie_tph_retrieve_st == 0

msix_nr_in_bounds(msix_nr) ==
    LET sz == tph_get_table_size
    IN  IF sz.ret # 0 THEN FALSE ELSE msix_nr <= sz.field

get_root_port_completer_cap == get_rp_completer_type

completer_support_ok(req) == ~(req > get_root_port_completer_cap)

no_st_mode_supported ==
    LET r == tph_get_reg_field_u32(ReadCapReg, PCI_TPH_CAP_NO_ST)
    IN  IF r.ret # 0 THEN FALSE ELSE r.field # 0

can_set_st(req_enable, msix_nr) ==
    ~(tph_cap = 0 \/ ~msix_enabled \/ ~tph_int_vec_mode_supported
        \/ optNoTph \/ optNoStMode \/ ~msix_nr_in_bounds(msix_nr)
        \/ ~completer_support_ok(req_enable) \/ ~no_st_mode_supported)

v1_pcie_tph_disable(s) ==
    tph_set_reg_field_u32(s, PCI_TPH_CTRL_REQ_EN_MASK, PCI_TPH_REQ_DISABLE)

tph_write_ctrl_reg(s, value) ==
    LET w == tph_set_reg_field_u32(s, WHOLE_REG, value)
    IN  IF w.ret # 0 THEN Ret(v1_pcie_tph_disable(w.s).s, w.ret) ELSE w

tph_set_ctrl_reg_mode_sel(s, st_mode) ==
    LET rd == tph_get_reg_field_u32(ReadCtrlReg(s), WHOLE_REG)
    IN  IF rd.ret # 0 THEN Ret(s, rd.ret)
        ELSE tph_write_ctrl_reg(s,
                 ClearField(PCI_TPH_CTRL_MODE_SEL_MASK, rd.field)
                     + FIELD_PREP(PCI_TPH_CTRL_MODE_SEL_MASK, st_mode))

tph_set_ctrl_reg_en(s, req_enable) ==
    LET rd == tph_get_reg_field_u32(ReadCtrlReg(s), WHOLE_REG)
    IN  IF rd.ret # 0 THEN Ret(s, rd.ret)
        ELSE tph_write_ctrl_reg(s,
                 ClearField(PCI_TPH_CTRL_REQ_EN_MASK, rd.field)
                     + FIELD_PREP(PCI_TPH_CTRL_REQ_EN_MASK, req_enable))

\* the descriptor with the lock still held, or NULL with the lock released
tph_msix_index_to_desc(s, index) ==
    LET s1 == MsiLock(s)
    IN  IF MsiDescFound(index) THEN [s |-> s1, found |-> TRUE]
        ELSE [s |-> MsiUnlock(s1), found |-> FALSE]

\* void: a missing descriptor is logged and nothing is written
v1_tph_write_tag_to_msix(s, msix_nr, tagval) ==
    LET d == tph_msix_index_to_desc(s, msix_nr)
    IN  IF ~d.found THEN d.s
        ELSE MsiUnlock(WriteVecCtrl(d.s, msix_nr,
                                    MergeTag(d.s.vec[msix_nr], tagval)))

\* returns 1 for true, 0 for false
v1_pcie_tph_write_st(s, msix_nr, req_enable, tag) ==
    IF ~can_set_st(req_enable, msix_nr) THEN Ret(s, 0)
    ELSE LET s1 == v1_pcie_tph_disable(s).s
             loc == tph_get_table_location
         IN  IF loc.ret # 0 THEN Ret(s1, 0)
             ELSE IF loc.field \notin {V1_PCI_TPH_LOC_MSIX, V1_PCI_TPH_LOC_CAP}
             THEN Ret(s1, 0)
             ELSE LET s2 == IF loc.field = V1_PCI_TPH_LOC_MSIX
                            THEN v1_tph_write_tag_to_msix(s1, msix_nr, tag)
                            ELSE WriteStWord(s1, msix_nr, tag).s
                      s3 == tph_set_ctrl_reg_mode_sel(s2, PCI_TPH_INT_VEC_MODE).s
                  IN  Ret(tph_set_ctrl_reg_en(s3, req_enable).s, 1)

v1_pcie_tph_set_st(s, msix_nr, req_enable) ==
    v1_pcie_tph_write_st(s, msix_nr, req_enable, pcie_tph_retrieve_st)

tph_set_dev_nostmode(s) ==
    LET a == tph_set_reg_field_u32(s, PCI_TPH_CTRL_MODE_SEL_MASK,
                                   PCI_TPH_NO_ST_MODE)
    IN  IF a.ret # 0 THEN a
        ELSE tph_set_reg_field_u32(a.s, PCI_TPH_CTRL_REQ_EN_MASK,
                                   PCI_TPH_REQ_TPH_ONLY)

(***************************************************************************)
(* The environment: hardware capabilities, Root Port, firmware, policy.    *)
(***************************************************************************)
CapRegOf(modes, ext, loc, size) ==
    modes + FIELD_PREP(PCI_TPH_CAP_EXT_TPH, ext)
          + FIELD_PREP(PCI_TPH_CAP_LOC_MASK, loc)
          + FIELD_PREP(PCI_TPH_CAP_ST_MASK, size)

RootPortOf(found, readOk, comp, bridge) ==
    [found |-> found, readOk |-> readOk,
     devcap2 |-> FIELD_PREP(PCI_EXP_DEVCAP2_TPH_COMP_MASK, comp) + 16,
     bridge |-> bridge]

\* no Root Port; one whose DEVCAP2 cannot be read; one without completer
\* support; TPH completer; extended TPH completer, with or without an ACPI
\* companion
RootPorts ==
    {RootPortOf(FALSE, FALSE, 0, FALSE), RootPortOf(TRUE, FALSE, 3, TRUE),
     RootPortOf(TRUE, TRUE, 0, TRUE), RootPortOf(TRUE, TRUE, 1, TRUE),
     RootPortOf(TRUE, TRUE, 3, TRUE), RootPortOf(TRUE, TRUE, 3, FALSE)}

StInfoHalf(st_valid, xst_valid, st, xst) ==
    st_valid + 2 * xst_valid + FIELD_PREP(ST_TAG, st) + FIELD_PREP(XST_TAG, xst)

\* a reply of eight bytes
DsmOf(has, kind, vm, pm) ==
    [has |-> has, kind |-> kind, len |-> 8, vm |-> vm, pm |-> pm]

\* a buffer of len bytes; of a buffer shorter than eight bytes, pm is what
\* the memory behind the buffer holds
DsmBuffer(len, vm, pm) ==
    [has |-> TRUE, kind |-> "buffer", len |-> len, vm |-> vm, pm |-> pm]

\* no _DSM function; no object returned; an integer returned; buffers with
\* different tags valid; buffers of four bytes, followed in memory by
\* zeroes or by something else; a buffer of sixteen bytes
DsmStates ==
    {DsmOf(FALSE, "none", 0, 0), DsmOf(TRUE, "none", 0, 0),
     DsmOf(TRUE, "integer", 0, 0),
     DsmOf(TRUE, "buffer", StInfoHalf(1, 1, 90, 4660), StInfoHalf(0, 0, 7, 9)),
     DsmOf(TRUE, "buffer", StInfoHalf(1, 0, 17, 4660), StInfoHalf(0, 1, 7, 9)),
     DsmBuffer(4, StInfoHalf(1, 1, 90, 4660), 0),
     DsmBuffer(4, StInfoHalf(1, 1, 90, 4660), StInfoHalf(1, 1, 7, 9)),
     DsmBuffer(16, StInfoHalf(1, 1, 90, 4660), StInfoHalf(1, 1, 7, 9))}

\* steering tags a driver passes to pcie_tph_set_st_entry
Tags == {90, 4660}
ModeArgs == 0 .. MaxModeArg
ReqTypeArgs == 0 .. 3
MemTypes == {TPH_MEM_TYPE_VM, TPH_MEM_TYPE_PM}
Versions == {"enable", "acpi", "bool"}

NoOp == [op |-> "init", args |-> <<>>, ret |-> 0, log |-> <<>>, lk |-> <<>>,
         pre |-> [ctrl |-> 0, tph_enabled |-> FALSE, tph_mode |-> 0,
                  tph_req_type |-> 0]]

FullRootPort == RootPortOf(TRUE, TRUE, 3, TRUE)
GoodDsm ==
    DsmOf(TRUE, "buffer", StInfoHalf(1, 1, 90, 4660), StInfoHalf(0, 0, 7, 9))

\* MSI descriptor sets: they vary where the ST table is in the MSI-X table
DescSets(loc) == IF loc = 2 THEN {{}, {0}, Slots} ELSE {{}}

\* the callers of the step-wise table writer
MaxThreads == 2
Threads == 1 .. MaxThreads
IdleThread == [pc |-> "idle", idx |-> 0, req |-> 0, tag |-> 0, reg |-> 0]

\* no caller is inside the table writer
CallersIdle ==
    /\ threads = [t \in Threads |-> IdleThread]
    /\ serialized = TRUE

Env(m, e, l, z, descs, msix, notph, nostmode, rp, d) ==
    /\ capReg = CapRegOf(m, e, l, z)
    /\ msiDescs = descs
    /\ msix_enabled = msix
    /\ optNoTph = notph
    /\ optNoStMode = nostmode
    /\ rootPort = rp
    /\ dsm = d

\* supported modes, extended TPH and the Root Port vary
InitCapability ==
    /\ version = "enable"
    /\ \E m \in 0 .. 7, e \in 0 .. 1, rp \in RootPorts :
          Env(m, e, 1, 0, {}, TRUE, FALSE, FALSE, rp, GoodDsm)

\* location and size of the ST table and the MSI descriptors vary
InitTable ==
    \E l \in 0 .. 2, z \in 0 .. MaxStSize, descs \in SUBSET Slots :
        /\ descs \in DescSets(l)
        /\ Env(7, 1, l, z, descs, TRUE, FALSE, FALSE, FullRootPort, GoodDsm)

\* MSI-X enable, the command line options and the No-ST and
\* Interrupt-Vector mode bits vary
InitPolicy ==
    /\ version \in {"acpi", "bool"}
    /\ \E m \in 0 .. 3, msix \in BOOLEAN, notph \in BOOLEAN,
          nostmode \in BOOLEAN :
          Env(m, 0, 1, 0, {}, msix, notph, nostmode, FullRootPort, GoodDsm)

\* the Root Port and the firmware vary
InitPlatform ==
    /\ \E rp \in RootPorts, d \in DsmStates :
          /\ version = "bool" => d = GoodDsm
          /\ Env(3, 0, 1, 0, {}, TRUE, FALSE, FALSE, rp, d)

\* the state after pci_tph_init / pcie_tph_init: the capability was found
\* or not, nothing is enabled, and the environment differs from a fully
\* capable platform in one respect
InitState ==
    /\ version \in Versions
    /\ tph_cap \in {0, TphCapOffset}
    /\ InitCapability \/ InitTable \/ InitPolicy \/ InitPlatform
    /\ tph_enabled = FALSE
    /\ tph_mode = 0
    /\ tph_req_type = 0
    /\ ctrlReg = 0
    /\ stTable = [i \in Slots |-> 0]
    /\ vecCtrl = [i \in Slots |-> 1]
    /\ CallersIdle
    /\ last = NoOp

\* every configuration access succeeds
Init == InitState /\ cfgFault = "none"

\* writes of ST table entries in configuration space fail
InitFault == InitState /\ cfgFault = "st_write"

(***************************************************************************)
(* The operations as actions.                                              *)
(***************************************************************************)
Pre == [ctrl |-> ctrlReg, tph_enabled |-> tph_enabled, tph_mode |-> tph_mode,
        tph_req_type |-> tph_req_type]

\* an operation that ran to state r.s and returned r.ret
Apply(op, args, r) ==
    /\ ctrlReg' = r.s.ctrl
    /\ stTable' = r.s.st
    /\ vecCtrl' = r.s.vec
    /\ tph_enabled' = r.s.tph_enabled
    /\ tph_mode' = r.s.tph_mode
    /\ tph_req_type' = r.s.tph_req_type
    /\ last' = [op |-> op, args |-> args, ret |-> r.ret, log |-> r.s.log,
                lk |-> r.s.lk, pre |-> Pre]
    /\ UNCHANGED <<tph_cap, msix_enabled, capReg, envVars, callerVars>>

BoolInt(b) == IF b THEN 1 ELSE 0

Enable(mode) ==
    /\ version = "enable"
    /\ Apply("enable", <<mode>>, pcie_enable_tph(Cur, mode))

Disable ==
    /\ version = "enable"
    /\ Apply("disable", <<>>, Ret(pcie_disable_tph(Cur), 0))

Modes ==
    /\ version = "enable"
    /\ Apply("modes", <<>>, Ret(Cur, pcie_tph_modes))

Enabled ==
    /\ version = "enable"
    /\ Apply("enabled", <<>>, Ret(Cur, BoolInt(pcie_tph_enabled)))

SetStEntry(index, tag) ==
    /\ version = "enable"
    /\ Apply("set_st_entry", <<index, tag>>,
             pcie_tph_set_st_entry(Cur, index, tag))

GetCpuSt(mem_type) ==
    /\ version = "enable"
    /\ LET t == pcie_tph_get_cpu_st(Cur, mem_type)
       IN  Apply("get_cpu_st", <<mem_type, t.set, t.tag>>, Ret(Cur, t.ret))

SetSt(msix_idx, mem_type, req_type) ==
    /\ version = "acpi"
    /\ Apply("set_st", <<msix_idx, mem_type, req_type>>,
             pcie_tph_set_st(Cur, msix_idx, mem_type, req_type))

GetStFromAcpi(mem_type, req_type) ==
    /\ version = "acpi"
    /\ LET t == pcie_tph_get_st_from_acpi(mem_type, req_type)
       IN  Apply("get_st_from_acpi", <<mem_type, req_type, t.set, t.tag>>,
                 Ret(Cur, t.ret))

IntrVecSupported ==
    /\ version = "acpi"
    /\ Apply("intr_vec_supported", <<>>,
             Ret(Cur, BoolInt(pcie_tph_intr_vec_supported)))

SetNoStMode ==
    /\ version = "acpi"
    /\ Apply("set_nostmode", <<>>, Ret(pcie_tph_set_nostmode(Cur), 0))

TphDisable ==
    /\ version = "acpi"
    /\ Apply("tph_disable", <<>>, Ret(pcie_tph_disable(Cur), 0))

V1SetSt(msix_nr, req_enable) ==
    /\ version = "bool"
    /\ Apply("set_st", <<msix_nr, req_enable>>,
             v1_pcie_tph_set_st(Cur, msix_nr, req_enable))

V1SetNoStMode ==
    /\ version = "bool"
    /\ Apply("set_nostmode", <<>>, tph_set_dev_nostmode(Cur))

V1TphDisable ==
    /\ version = "bool"
    /\ Apply("tph_disable", <<>>, v1_pcie_tph_disable(Cur))

Next ==
    \/ \E mode \in ModeArgs : Enable(mode)
    \/ Disable
    \/ Modes
    \/ Enabled
    \/ \E index \in Slots, tag \in Tags : SetStEntry(index, tag)
    \/ \E mem_type \in MemTypes : GetCpuSt(mem_type)
    \/ \E msix_idx \in Slots, mem_type \in MemTypes, req_type \in ReqTypeArgs :
          SetSt(msix_idx, mem_type, req_type)
    \/ \E mem_type \in MemTypes, req_type \in ReqTypeArgs :
          GetStFromAcpi(mem_type, req_type)
    \/ IntrVecSupported
    \/ SetNoStMode
    \/ TphDisable
    \/ \E msix_nr \in Slots, req_enable \in ReqTypeArgs :
          V1SetSt(msix_nr, req_enable)
    \/ V1SetNoStMode
    \/ V1TphDisable

Spec == Init /\ [][Next]_vars

SpecFault == InitFault /\ [][Next]_vars

\* writes of the TPH control register fail
InitCtrlFault == InitState /\ cfgFault = "ctrl_write"

SpecCtrlFault == InitCtrlFault /\ [][Next]_vars

(***************************************************************************)
(* The mode shortcuts on a control register with any contents: what        *)
(* firmware or an earlier driver left in the mode select, request enable   *)
(* and reserved bits.                                                      *)
(***************************************************************************)
\* a reserved bit below and one above the request enable field
CtrlReserved == {0, 16, 65536, 65552}

CtrlValues ==
    {FIELD_PREP(PCI_TPH_CTRL_MODE_SEL_MASK, m)
        + FIELD_PREP(PCI_TPH_CTRL_REQ_EN_MASK, e) + r :
        m \in 0 .. 7, e \in 0 .. 3, r \in CtrlReserved}

InitCtrl ==
    /\ version \in {"acpi", "bool"}
    /\ tph_cap \in {0, TphCapOffset}
    /\ Env(3, 0, 1, 0, {}, TRUE, FALSE, FALSE, FullRootPort, GoodDsm)
    /\ tph_enabled = FALSE
    /\ tph_mode = 0
    /\ tph_req_type = 0
    /\ ctrlReg \in CtrlValues
    /\ stTable = [i \in Slots |-> 0]
    /\ vecCtrl = [i \in Slots |-> 1]
    /\ CallersIdle
    /\ last = NoOp
    /\ cfgFault = "none"

NextCtrl ==
    \/ SetNoStMode
    \/ TphDisable
    \/ V1SetNoStMode
    \/ V1TphDisable

SpecCtrl == InitCtrl /\ [][NextCtrl]_vars

(***************************************************************************)
(* The register accessor of the "bool" version on its own: any control     *)
(* register, each mask its callers pass, field values wider than the       *)
(* field, and reads of the register that fail.                             *)
(***************************************************************************)
MaxFieldArg == 9
FieldArgs == 0 .. MaxFieldArg

\* the (mask, shift) pairs passed to tph_set_reg_field_u32
AccessorFields ==
    {PCI_TPH_CTRL_MODE_SEL_MASK, PCI_TPH_CTRL_REQ_EN_MASK, WHOLE_REG}

InitField ==
    /\ version = "bool"
    /\ tph_cap \in {0, TphCapOffset}
    /\ Env(3, 0, 1, 0, {}, TRUE, FALSE, FALSE, FullRootPort, GoodDsm)
    /\ tph_enabled = FALSE
    /\ tph_mode = 0
    /\ tph_req_type = 0
    /\ ctrlReg \in CtrlValues
    /\ stTable = [i \in Slots |-> 0]
    /\ vecCtrl = [i \in Slots |-> 1]
    /\ CallersIdle
    /\ last = NoOp
    /\ cfgFault \in {"none", "ctrl_read"}

SetRegField ==
    \E mask \in AccessorFields, field \in FieldArgs :
        Apply("set_reg_field", <<mask, field>>,
              tph_set_reg_field_u32(Cur, mask, field))

NextField == SetRegField

SpecField == InitField /\ [][NextField]_vars

(***************************************************************************)
(* The int pcie_tph_write_st run by several callers one configuration      *)
(* access at a time.  A caller holds in reg the control register value it  *)
(* read last; nothing in the code orders the accesses of two callers.      *)
(***************************************************************************)
InitConc ==
    /\ version = "acpi"
    /\ tph_cap = TphCapOffset
    /\ Env(3, 0, 1, 0, {}, TRUE, FALSE, FALSE, FullRootPort, GoodDsm)
    /\ tph_enabled = FALSE
    /\ tph_mode = 0
    /\ tph_req_type = 0
    /\ ctrlReg = 0
    /\ stTable = [i \in Slots |-> 0]
    /\ vecCtrl = [i \in Slots |-> 1]
    /\ threads = [t \in Threads |-> IdleThread]
    /\ serialized \in BOOLEAN
    /\ last = NoOp
    /\ cfgFault = "none"

\* the state a caller's helper works on: the register value it read
Held(t) == [Cur EXCEPT !.ctrl = threads[t].reg]

\* a step of caller t that leaves the device record and the MSI-X table
ConcStep(t, op, th, ctrl, st, log) ==
    /\ threads' = [threads EXCEPT ![t] = th]
    /\ ctrlReg' = ctrl
    /\ stTable' = st
    /\ last' = [op |-> op, args |-> <<t>>, ret |-> 0, log |-> log,
                lk |-> <<>>, pre |-> Pre]
    /\ UNCHANGED <<vecCtrl, devVars, capReg, envVars, serialized>>

\* pcie_tph_set_st up to the first register access of pcie_tph_write_st:
\* the tag is resolved and the checks pass
ConcCall(t, msix_idx, req_type) ==
    /\ threads[t].pc = "idle"
    /\ serialized => \A u \in Threads : threads[u].pc = "idle"
    /\ pcie_tph_get_st_from_acpi(TPH_MEM_TYPE_VM, req_type).ret = 0
    /\ ~WriteStNotNeeded
    /\ ~WriteStIncorrect(msix_idx, req_type)
    /\ ConcStep(t, "conc_call",
                [pc |-> "dis_rd", idx |-> msix_idx, req |-> req_type,
                 tag |-> pcie_tph_get_st_from_acpi(TPH_MEM_TYPE_VM,
                                                   req_type).tag,
                 reg |-> 0],
                ctrlReg, stTable, <<>>)

\* the pci_read_config_dword of pcie_tph_disable, set_ctrl_reg_mode_sel or
\* set_ctrl_reg_req_en
ConcRead(t) ==
    /\ threads[t].pc \in {"dis_rd", "sel_rd", "en_rd"}
    /\ ConcStep(t, "conc_read",
                [threads[t] EXCEPT
                    !.pc = CASE @ = "dis_rd" -> "dis_wr"
                             [] @ = "sel_rd" -> "sel_wr"
                             [] OTHER -> "en_wr",
                    !.reg = ReadCtrlReg(Cur).val],
                ctrlReg, stTable, <<>>)

\* the pci_write_config_dword that follows it
ConcWrite(t) ==
    /\ threads[t].pc \in {"dis_wr", "sel_wr", "en_wr"}
    /\ LET w == CASE threads[t].pc = "dis_wr" -> pcie_tph_disable(Held(t))
                  [] threads[t].pc = "sel_wr" ->
                        set_ctrl_reg_mode_sel(Held(t), PCI_TPH_INT_VEC_MODE)
                  [] OTHER -> set_ctrl_reg_req_en(Held(t), threads[t].req)
       IN  ConcStep(t, "conc_write",
                    [threads[t] EXCEPT
                        !.pc = CASE @ = "dis_wr" -> "tag"
                                 [] @ = "sel_wr" -> "en_rd"
                                 [] OTHER -> "idle"],
                    w.ctrl, stTable, w.log)

\* the pci_write_config_word of the ST entry
ConcTag(t) ==
    /\ threads[t].pc = "tag"
    /\ LET w == WriteStWord(Cur, threads[t].idx, threads[t].tag)
       IN  ConcStep(t, "conc_tag", [threads[t] EXCEPT !.pc = "sel_rd"],
                    ctrlReg, w.s.st, w.s.log)

NextConc ==
    \/ \E t \in Threads, msix_idx \in Slots :
          ConcCall(t, msix_idx, PCI_TPH_REQ_TPH_ONLY)
    \/ \E t \in Threads : ConcRead(t)
    \/ \E t \in Threads : ConcWrite(t)
    \/ \E t \in Threads : ConcTag(t)

SpecConc == InitConc /\ [][NextConc]_vars

(***************************************************************************)
(* The decoding of the firmware reply, over replies in which every valid   *)
(* and ph_ignore bit and the tags of both memory types vary.               *)
(***************************************************************************)
PH_IGNORE == Field(2, 1)

\* the halves of union st_info with tags from st and xst
ReplyHalves(st, xst) ==
    {StInfoHalf(v, xv, s, x) + FIELD_PREP(PH_IGNORE, ign) :
        v \in 0 .. 1, xv \in 0 .. 1, ign \in 0 .. 1, s \in st, x \in xst}

ExtractReplies ==
    {DsmOf(TRUE, "buffer", vm, pm) :
        vm \in ReplyHalves({90, 255}, {4660, 32767}),
        pm \in ReplyHalves({7, 254}, {9, 32766})}

\* enum tph_mem_type values and one value outside the enum
MemTypeArgs == 0 .. 2

InitExtract ==
    /\ version = "acpi"
    /\ tph_cap = TphCapOffset
    /\ \E d \in ExtractReplies :
          Env(3, 0, 1, 0, {}, TRUE, FALSE, FALSE, FullRootPort, d)
    /\ tph_enabled = FALSE
    /\ tph_mode = 0
    /\ tph_req_type = 0
    /\ ctrlReg = 0
    /\ stTable = [i \in Slots |-> 0]
    /\ vecCtrl = [i \in Slots |-> 1]
    /\ CallersIdle
    /\ last = NoOp
    /\ cfgFault = "none"

NextExtract ==
    \E mem_type \in MemTypeArgs, req_type \in ReqTypeArgs :
        GetStFromAcpi(mem_type, req_type)

SpecExtract == InitExtract /\ [][NextExtract]_vars

(***************************************************************************)
(* Properties.  Each reads the last operation (last), the state it was     *)
(* called in (last.pre) and the state it left.                             *)
(***************************************************************************)
ReqEn(reg) == FIELD_GET(PCI_TPH_CTRL_REQ_EN_MASK, reg)

IsTagWrite(w) == w.k \in {"st", "vec"}

IsCtrlWrite(w) == w.k = "ctrl"

\* the context and the control register are as the operation found them
ContextUnchanged ==
    /\ ctrlReg = last.pre.ctrl
    /\ tph_enabled = last.pre.tph_enabled
    /\ tph_mode = last.pre.tph_mode
    /\ tph_req_type = last.pre.tph_req_type

\* C1: in every run of a steering-tag writer (pcie_tph_set_st_entry,
\* pcie_tph_set_st -> pcie_tph_write_st of either version) that writes a
\* tag, a control-register write with request-enable = disabled precedes
\* the tag write, the request-enable field is "disabled" at the moment of
\* the tag write, and every write that sets request-enable to something
\* else comes after the tag write.
C1_DisableBeforeTagWrite ==
    last.op \in {"set_st_entry", "set_st"} =>
        \A j \in DOMAIN last.log :
            IsTagWrite(last.log[j]) =>
                /\ \E i \in 1 .. (j - 1) :
                      /\ IsCtrlWrite(last.log[i])
                      /\ ReqEn(last.log[i].v) = PCI_TPH_REQ_DISABLE
                /\ last.log[j].en = PCI_TPH_REQ_DISABLE
                /\ \A i \in DOMAIN last.log :
                      (IsCtrlWrite(last.log[i])
                          /\ ReqEn(last.log[i].v) # PCI_TPH_REQ_DISABLE)
                      => i > j

\* a tag was written on a device whose requests were enabled, and requests
\* were enabled again afterwards
C1_Witness ==
    /\ last.op \in {"set_st_entry", "set_st"}
    /\ ReqEn(last.pre.ctrl) # PCI_TPH_REQ_DISABLE
    /\ \E j \in DOMAIN last.log :
          /\ IsTagWrite(last.log[j])
          /\ \E i \in (j + 1) .. Len(last.log) :
                /\ IsCtrlWrite(last.log[i])
                /\ ReqEn(last.log[i].v) # PCI_TPH_REQ_DISABLE

\* the request type the device advertises: extended if its Extended TPH
\* Requester bit is set, basic otherwise
DeviceMaxReqType ==
    IF FIELD_GET(PCI_TPH_CAP_EXT_TPH, capReg) # 0 THEN PCI_TPH_REQ_EXT_TPH
    ELSE PCI_TPH_REQ_TPH_ONLY

\* the completer type the Root Port advertises
RootPortCompleter ==
    IF rootPort.found /\ rootPort.readOk
    THEN FIELD_GET(PCI_EXP_DEVCAP2_TPH_COMP_MASK, rootPort.devcap2)
    ELSE PCI_TPH_REQ_DISABLE

EnableSucceeded == last.op = "enable" /\ last.ret = 0

\* C2: after a successful pcie_enable_tph the recorded request type, which
\* is also the request-enable field written to the control register, is
\* neither greater than the request type the device advertises nor greater
\* than the Root Port's completer type.
C2_ReqTypeWithinBoth ==
    EnableSucceeded =>
        /\ tph_req_type <= DeviceMaxReqType
        /\ tph_req_type <= RootPortCompleter
        /\ ReqEn(ctrlReg) = tph_req_type
        /\ Len(last.log) = 1
        /\ ReqEn(last.log[1].v) = tph_req_type

\* enabled on a basic-only device below a Root Port that completes
\* extended TPH
C2_Witness ==
    /\ EnableSucceeded
    /\ DeviceMaxReqType = PCI_TPH_REQ_TPH_ONLY
    /\ RootPortCompleter = PCI_TPH_REQ_EXT_TPH
    /\ tph_req_type = PCI_TPH_REQ_TPH_ONLY

\* C3: a successful pcie_enable_tph records exactly the smaller of the
\* device's maximum request type and the Root Port's completer type
\* (extended device below an extended Root Port: extended).
C3_ReqTypeIsMin ==
    EnableSucceeded =>
        tph_req_type = Min(DeviceMaxReqType, RootPortCompleter)

\* the mode is one mode bit of the bitmask pcie_tph_modes returns
ModeOffered(mode) ==
    /\ mode \in {Mask(PCI_TPH_CAP_NO_ST), Mask(PCI_TPH_CAP_INT_VEC),
                 Mask(PCI_TPH_CAP_DEV_SPEC)}
    /\ BitAnd(mode, pcie_tph_modes) # 0

\* C4: pcie_enable_tph(mode) with a mode that is not one of the mode bits
\* of pcie_tph_modes returns an error, writes no register and leaves the
\* device as enabled as it was, so a device that was not enabled stays so.
C4_UnsupportedModeRejected ==
    (last.op = "enable" /\ ~ModeOffered(last.args[1])) =>
        /\ last.ret < 0
        /\ last.log = <<>>
        /\ ctrlReg = last.pre.ctrl
        /\ tph_enabled = last.pre.tph_enabled
        /\ ~last.pre.tph_enabled => (last.ret = -EINVAL /\ ~tph_enabled)

\* interrupt vector mode asked of a disabled device that offers other
\* modes only
C4_Witness ==
    /\ last.op = "enable"
    /\ last.args[1] = Mask(PCI_TPH_CAP_INT_VEC)
    /\ pcie_tph_modes # 0
    /\ ~ModeOffered(last.args[1])
    /\ ~last.pre.tph_enabled
    /\ last.ret = -EINVAL

\* C5: pcie_enable_tph on an enabled device returns -EBUSY and leaves the
\* enabled flag, the recorded mode, the recorded request type and the
\* control register unchanged, whatever the mode.
C5_EnableWhileEnabledBusy ==
    (last.op = "enable" /\ last.pre.tph_enabled) =>
        /\ last.ret = -EBUSY
        /\ last.log = <<>>
        /\ ContextUnchanged
        /\ tph_enabled

\* an enabled device asked for another mode it offers
C5_Witness ==
    /\ last.op = "enable"
    /\ last.pre.tph_enabled
    /\ ModeOffered(last.args[1])
    /\ SelectMode(last.args[1], get_st_modes) # last.pre.tph_mode
    /\ last.ret = -EBUSY

\* the Root Port is missing, its DEVCAP2 cannot be read, or it advertises
\* no TPH completer support
RootPortUnusable ==
    \/ ~rootPort.found
    \/ ~rootPort.readOk
    \/ FIELD_GET(PCI_EXP_DEVCAP2_TPH_COMP_MASK, rootPort.devcap2) = 0

\* C6: with an unusable Root Port the completer type is DISABLED, and
\* pcie_enable_tph fails without a control-register write and without
\* marking the device enabled; where the call is otherwise valid the error
\* is -ENOTSUPP.
C6_NoCompleterFailsClosed ==
    RootPortUnusable =>
        /\ get_rp_completer_type = PCI_TPH_REQ_DISABLE
        /\ ~tph_enabled
        /\ last.op = "enable" =>
              /\ last.ret < 0
              /\ last.log = <<>>
              /\ ctrlReg = last.pre.ctrl
              /\ (tph_cap # 0 /\ ModeOffered(last.args[1]))
                    => last.ret = -ENOTSUPP

\* an offered mode asked of a device whose Root Port completes extended
\* TPH but whose DEVCAP2 cannot be read
C6_Witness ==
    /\ last.op = "enable"
    /\ rootPort.found
    /\ ~rootPort.readOk
    /\ FIELD_GET(PCI_EXP_DEVCAP2_TPH_COMP_MASK, rootPort.devcap2) # 0
    /\ ModeOffered(last.args[1])
    /\ last.ret = -ENOTSUPP

\* what an operation answers on a device without the capability
NoCapabilityAnswer ==
    CASE last.op = "init" -> TRUE
      [] last.op = "enable" -> last.ret = -EINVAL
      [] last.op = "set_st_entry" -> last.ret = -EINVAL
      [] last.op \in {"modes", "enabled", "intr_vec_supported"} -> last.ret = 0
      [] last.op = "get_st_from_acpi" -> last.ret = -ENODEV
      [] last.op = "get_cpu_st" ->
            /\ last.ret \in {0, -ENODEV, -EINVAL}
            /\ last.args[3] = 0
      [] last.op = "set_st" ->
            last.ret = (IF version = "bool" THEN 0 ELSE -ENODEV)
      [] OTHER -> last.ret <= 0

\* C7: on a device whose capability offset is 0 every public operation
\* returns an error, false or 0 (pcie_tph_get_cpu_st, which does not look
\* at the capability offset, returns 0 with a tag of 0 or an error), and no
\* sequence of operations writes the control register, the MSI-X table or
\* the ST table.
C7_NoCapabilityNoEffect ==
    tph_cap = 0 =>
        /\ NoCapabilityAnswer
        /\ last.log = <<>>
        /\ ctrlReg = 0
        /\ stTable = [i \in Slots |-> 0]
        /\ vecCtrl = [i \in Slots |-> 1]
        /\ ~tph_enabled /\ tph_mode = 0 /\ tph_req_type = 0

\* a steering tag asked for a device without the capability on a platform
\* where everything else is in place
C7_Witness ==
    /\ tph_cap = 0
    /\ last.op = "set_st"
    /\ version = "acpi"
    /\ rootPort = FullRootPort
    /\ msix_enabled /\ ~optNoTph /\ ~optNoStMode
    /\ last.ret = -ENODEV

\* C8: when a successful pcie_enable_tph(mode) on a disabled device is
\* followed by pcie_disable_tph, the device is Disabled again: the
\* request-enable field is "disabled", pcie_tph_enabled is false, and
\* pcie_enable_tph(mode) succeeds again.
C8_EnableDisableCycle ==
    [][\A mode \in ModeArgs :
          (/\ EnableSucceeded
           /\ last.args = <<mode>>
           /\ ~last.pre.tph_enabled
           /\ last'.op = "disable")
          => (/\ ReqEn(ctrlReg') = PCI_TPH_REQ_DISABLE
              /\ ~pcie_tph_enabled'
              /\ ctrlReg' = 0 /\ tph_mode' = 0 /\ tph_req_type' = 0
              /\ pcie_enable_tph(Cur, mode)'.ret = 0)]_vars

\* disabled after having been enabled
C8_Witness ==
    /\ last.op = "disable"
    /\ last.pre.tph_enabled
    /\ ReqEn(last.pre.ctrl) # PCI_TPH_REQ_DISABLE
    /\ Len(last.log) = 1
    /\ ~tph_enabled

\* C9: pcie_tph_modes changes neither the TPH context nor a register, and
\* its result is the same before and after every operation: it depends on
\* the capability register only.
C9_ModesPureRead ==
    [][/\ pcie_tph_modes' = pcie_tph_modes
       /\ last'.op = "modes" =>
             /\ last'.ret = pcie_tph_modes
             /\ last'.log = <<>>
             /\ UNCHANGED <<hwVars, devVars, envVars>>]_vars

\* modes queried on an enabled device after a steering tag was stored
C9_Witness ==
    /\ last.op = "modes"
    /\ last.pre.tph_enabled
    /\ last.ret # 0
    /\ \E i \in Slots : stTable[i] # 0

\* C10: pcie_disable_tph on a disabled device writes no register and
\* changes no state, and disabling twice leaves the state that disabling
\* once leaves.
C10_DisableIdempotent ==
    /\ (last.op = "disable" /\ ~last.pre.tph_enabled) =>
          (last.log = <<>> /\ ContextUnchanged)
    /\ last.op = "disable" => ~tph_enabled
    /\ LET once == pcie_disable_tph(Cur)
           twice == pcie_disable_tph([once EXCEPT !.log = <<>>])
       IN  /\ twice.log = <<>>
           /\ [twice EXCEPT !.log = once.log] = once

\* disabled again on a device that had been enabled and disabled before
C10_Witness ==
    /\ last.op = "disable"
    /\ ~last.pre.tph_enabled
    /\ tph_cap # 0
    /\ \E i \in Slots : stTable[i] # 0

\* a call of a steering-tag writer, its slot argument first
IsTagWriterCall == last.op \in {"set_st_entry", "set_st"}

\* the slot lies beyond the ST table the capability register describes
SlotOutOfBounds(idx) == idx > FIELD_GET(PCI_TPH_CAP_ST_MASK, capReg)

\* the status the writer returned is a failure (false, or a non-zero int)
WriterFailed == IF version = "bool" THEN last.ret = 0 ELSE last.ret # 0

\* everything but the slot index allows the tag to be written
OtherPreconditionsMet ==
    /\ tph_cap # 0
    /\ CASE version = "enable" ->
              last.pre.tph_enabled /\ last.pre.tph_mode # PCI_TPH_NO_ST_MODE
         [] version = "acpi" ->
              /\ ~WriteStNotNeeded
              /\ rp_completer_support_ok(last.args[3])
              /\ pcie_tph_get_st_from_acpi(last.args[2], last.args[3]).ret = 0
         [] OTHER ->
              /\ msix_enabled /\ ~optNoTph /\ ~optNoStMode
              /\ completer_support_ok(last.args[2])
              /\ no_st_mode_supported

\* C11: a table write whose slot index is outside the ST table fails and
\* does not disable TPH: on return the request-enable field and the
\* enabled flag are what they were before the call.
C11_OutOfBoundsKeepsEnabled ==
    (IsTagWriterCall /\ OtherPreconditionsMet
        /\ SlotOutOfBounds(last.args[1])) =>
        /\ WriterFailed
        /\ ReqEn(ctrlReg) = ReqEn(last.pre.ctrl)
        /\ tph_enabled = last.pre.tph_enabled

\* the ST table location field of the capability register
TableLoc == FIELD_GET(PCI_TPH_CAP_LOC_MASK, capReg)

\* the tag-write step cannot succeed: no MSI-X descriptor for the slot, the
\* write of the ST entry in configuration space fails, or the table is
\* neither in the MSI-X table nor in the capability structure
TagStepFails(idx) ==
    \/ TableLoc = 2 /\ idx \notin msiDescs
    \/ TableLoc = 1 /\ cfgFault = "st_write"
    \/ TableLoc \notin {1, 2}

\* a call of pcie_tph_set_st_entry or of the int pcie_tph_set_st that got
\* past the precondition checks
WriterPastChecks ==
    /\ version \in {"enable", "acpi"}
    /\ IsTagWriterCall
    /\ OtherPreconditionsMet
    /\ version = "acpi" => ~SlotOutOfBounds(last.args[1])

\* C12: when the tag-write step of the table writer (pcie_tph_set_st_entry,
\* int pcie_tph_write_st) fails after TPH was disabled, the operation
\* returns an error, no tag is written, no write of the call sets
\* request-enable to anything but "disabled", and request-enable is
\* "disabled" on return.
C12_FailedTagWriteLeavesDisabled ==
    (WriterPastChecks /\ TagStepFails(last.args[1])) =>
        /\ last.ret # 0
        /\ Len(last.log) >= 1
        /\ \A i \in DOMAIN last.log :
              /\ IsCtrlWrite(last.log[i])
              /\ ReqEn(last.log[i].v) = PCI_TPH_REQ_DISABLE
        /\ ReqEn(ctrlReg) = PCI_TPH_REQ_DISABLE

\* the write of the ST entry in configuration space failed on a device
\* whose requests were enabled
C12_Witness ==
    /\ WriterPastChecks
    /\ version = "acpi"
    /\ TableLoc = 1
    /\ cfgFault = "st_write"
    /\ ReqEn(last.pre.ctrl) # PCI_TPH_REQ_DISABLE
    /\ last.args[3] # PCI_TPH_REQ_DISABLE
    /\ last.ret = PCIBIOS_DEVICE_NOT_FOUND

ModeSel(reg) == FIELD_GET(PCI_TPH_CTRL_MODE_SEL_MASK, reg)

\* the call wrote a steering tag
TagWritten == \E j \in DOMAIN last.log : IsTagWrite(last.log[j])

\* C13: when the int pcie_tph_write_st (called by pcie_tph_set_st) passes
\* its preconditions and the tag write succeeds, on return the control
\* register's mode-select field is Interrupt Vector mode and its
\* request-enable field is the request type argument.
C13_ReEnableRequestedType ==
    (last.op = "set_st" /\ version = "acpi" /\ OtherPreconditionsMet
        /\ ~SlotOutOfBounds(last.args[1]) /\ ~TagStepFails(last.args[1])) =>
        /\ last.ret = 0
        /\ TagWritten
        /\ ModeSel(ctrlReg) = PCI_TPH_INT_VEC_MODE
        /\ ReqEn(ctrlReg) = last.args[3]

\* extended requests asked for on a device left in No ST mode with basic
\* requests
C13_Witness ==
    /\ last.op = "set_st"
    /\ version = "acpi"
    /\ TagWritten
    /\ last.args[3] = PCI_TPH_REQ_EXT_TPH
    /\ ModeSel(last.pre.ctrl) = PCI_TPH_NO_ST_MODE
    /\ ReqEn(last.pre.ctrl) = PCI_TPH_REQ_TPH_ONLY
    /\ last.ret = 0

\* the steering tag the call handed to the table writer
HandedTag ==
    CASE last.op = "set_st_entry" -> last.args[2]
      [] version = "acpi" ->
            pcie_tph_get_st_from_acpi(last.args[2], last.args[3]).tag
      [] OTHER -> pcie_tph_retrieve_st

\* the tag sub-field and the rest of a vector control register
VecTag(val) == val \div 65536
VecLow(val) == val % 65536

\* C14: after a successful write of tag T to slot i (pcie_tph_set_st_entry,
\* int pcie_tph_set_st) the backing store holds T in the tag sub-field of
\* slot i (the upper 16 bits of its vector control register, or its ST
\* entry in the capability structure), the lower 16 bits of that vector
\* control register are unchanged, and so is every other slot.
C14_TagRoundTrip ==
    [][\A i \in Slots :
          (WriterPastChecks' /\ last'.ret = 0 /\ last'.args[1] = i) =>
              IF TableLoc = 2
              THEN /\ VecTag(vecCtrl'[i]) = HandedTag'
                   /\ VecLow(vecCtrl'[i]) = VecLow(vecCtrl[i])
                   /\ \A j \in Slots \ {i} : vecCtrl'[j] = vecCtrl[j]
                   /\ stTable' = stTable
              ELSE /\ stTable'[i] = HandedTag'
                   /\ \A j \in Slots \ {i} : stTable'[j] = stTable[j]
                   /\ vecCtrl' = vecCtrl]_vars

\* a tag stored in a masked MSI-X entry while another entry holds another
\* tag
C14_Witness ==
    /\ WriterPastChecks
    /\ last.ret = 0
    /\ TableLoc = 2
    /\ HandedTag # 0
    /\ VecTag(vecCtrl[last.args[1]]) = HandedTag
    /\ VecLow(vecCtrl[last.args[1]]) = 1
    /\ \E j \in Slots \ {last.args[1]} : VecTag(vecCtrl[j]) \notin {0, HandedTag}

\* the half of the reply that belongs to a memory class, the valid bit of
\* a width in it and the tag of that width
ReplyHalf(mem_type) == IF mem_type = TPH_MEM_TYPE_VM THEN dsm.vm ELSE dsm.pm
ReplyValid(mem_type, req_type) ==
    IF req_type = PCI_TPH_REQ_TPH_ONLY THEN ReplyHalf(mem_type) % 2
    ELSE (ReplyHalf(mem_type) \div 2) % 2
ReplyTag(mem_type, req_type) ==
    IF req_type = PCI_TPH_REQ_TPH_ONLY
    THEN (ReplyHalf(mem_type) \div 256) % 256
    ELSE ReplyHalf(mem_type) \div 65536
Decoded == last.op = "get_st_from_acpi" /\ last.ret = 0

\* C15: tph_extract_tag returns, for request type basic, the 8-bit tag of
\* the requested memory class (volatile = low half, persistent = high
\* half of the reply) if that class's basic-valid bit is set; for request
\* type extended, that class's 16-bit tag if its extended-valid bit is
\* set; and 0 in every other case.  A basic result never exceeds 0xFF, and
\* the result depends on no other valid bit.
C15_ExtractDecodes ==
    Decoded =>
        /\ last.args[3]
        /\ last.args[4] =
              IF /\ last.args[1] \in MemTypes
                 /\ last.args[2] \in {PCI_TPH_REQ_TPH_ONLY, PCI_TPH_REQ_EXT_TPH}
                 /\ ReplyValid(last.args[1], last.args[2]) = 1
              THEN ReplyTag(last.args[1], last.args[2])
              ELSE 0
        /\ last.args[2] = PCI_TPH_REQ_TPH_ONLY => last.args[4] <= 255

\* the extended tag of persistent memory is decoded while the other
\* class's and the other width's valid bits are clear
C15_Witness ==
    /\ Decoded
    /\ last.args[1] = TPH_MEM_TYPE_PM
    /\ last.args[2] = PCI_TPH_REQ_EXT_TPH
    /\ last.args[4] = 32766
    /\ ReplyValid(TPH_MEM_TYPE_PM, PCI_TPH_REQ_TPH_ONLY) = 0
    /\ ReplyValid(TPH_MEM_TYPE_VM, PCI_TPH_REQ_EXT_TPH) = 0

\* the firmware was asked and answered with a buffer
ReplyTaken ==
    /\ version = "acpi"
    /\ tph_cap # 0
    /\ RootPortHandleFound
    /\ dsm.has
    /\ dsm.kind = "buffer"

\* the steering tag a logged table write carries
TagOfWrite(e) == IF e.k = "vec" THEN VecTag(e.v) ELSE e.v

\* C16: when the reply's valid bit for the requested memory class and
\* request type is 0, pcie_tph_set_st resolves tag 0 and returns a non-zero
\* "not found" status; no other tag is written.
C16_InvalidTagNotFound ==
    (/\ last.op = "set_st"
     /\ ReplyTaken
     /\ last.args[3] \in {PCI_TPH_REQ_TPH_ONLY, PCI_TPH_REQ_EXT_TPH}
     /\ ReplyValid(last.args[2], last.args[3]) = 0) =>
        /\ last.ret # 0
        /\ \A j \in DOMAIN last.log :
              IsTagWrite(last.log[j]) => TagOfWrite(last.log[j]) = 0

\* the reply is one 64-bit word
ReplyWellFormed == dsm.has /\ dsm.kind = "buffer" /\ dsm.len = 8

\* C17: if the firmware method is missing, returns no object, or returns
\* something other than a buffer of eight bytes, pcie_tph_get_st_from_acpi
\* returns an error and stores 0 through the tag parameter.
C17_MalformedReplyRejected ==
    (/\ last.op = "get_st_from_acpi"
     /\ tph_cap # 0
     /\ RootPortHandleFound
     /\ ~ReplyWellFormed) =>
        /\ last.ret # 0
        /\ last.args[3]
        /\ last.args[4] = 0

\* the resolution phase fails: no capability, no ACPI handle of the Root
\* Port, or no buffer from the firmware; and the status it fails with
ResolutionFails ==
    tph_cap = 0 \/ ~RootPortHandleFound \/ ~dsm.has \/ dsm.kind # "buffer"
ResolutionStatus ==
    IF tph_cap = 0 \/ ~RootPortHandleFound THEN -ENODEV ELSE -EINVAL

\* the write phase fails: a check of the writer or the tag write itself
WritePhaseFails(msix_idx, req_type) ==
    /\ ~WriteStNotNeeded
    /\ \/ SlotOutOfBounds(msix_idx)
       \/ ~rp_completer_support_ok(req_type)
       \/ TagStepFails(msix_idx)
WritePhaseStatus(msix_idx, req_type) ==
    IF SlotOutOfBounds(msix_idx) \/ ~rp_completer_support_ok(req_type)
    THEN -EINVAL
    ELSE IF TableLoc = 1 THEN PCIBIOS_DEVICE_NOT_FOUND
    ELSE IF TableLoc = 2 THEN -ENXIO
    ELSE -EINVAL

\* C18: the int pcie_tph_set_st resolves, then writes: when the resolution
\* fails it returns that failure and writes neither the control register
\* nor the MSI-X table nor the ST table; when the write phase fails it
\* returns that failure; it returns 0 only if both phases succeeded.
C18_ResolveThenWrite ==
    (last.op = "set_st" /\ version = "acpi") =>
        /\ ResolutionFails =>
              /\ last.ret = ResolutionStatus
              /\ last.log = <<>>
              /\ ContextUnchanged
        /\ (~ResolutionFails /\ WritePhaseFails(last.args[1], last.args[3])) =>
              last.ret = WritePhaseStatus(last.args[1], last.args[3])
        /\ last.ret = 0 =>
              ~ResolutionFails /\ ~WritePhaseFails(last.args[1], last.args[3])

\* the firmware gave no tag to a device whose requester is enabled
C18_Witness ==
    /\ last.op = "set_st"
    /\ version = "acpi"
    /\ tph_cap # 0
    /\ ResolutionFails
    /\ ~WriteStNotNeeded
    /\ ~SlotOutOfBounds(last.args[1])
    /\ rp_completer_support_ok(last.args[3])
    /\ ReqEn(last.pre.ctrl) # PCI_TPH_REQ_DISABLE
    /\ last.ret = -EINVAL

\* a precondition of the table writer is not met: MSI-X is not enabled,
\* the hardware does not advertise Interrupt Vector mode, or the command
\* line disables TPH or forces No ST mode
PreconditionUnmet ==
    \/ ~msix_enabled
    \/ FIELD_GET(PCI_TPH_CAP_INT_VEC, capReg) = 0
    \/ optNoTph
    \/ optNoStMode
IntSetStCall == last.op = "set_st" /\ version = "acpi"

\* C19 as stated: whenever a precondition of the table writer is not met,
\* pcie_tph_set_st returns a failure status, and it never returns success
\* for a call in which no steering tag was programmed.
C19_UnmetPreconditionFails ==
    IntSetStCall =>
        /\ PreconditionUnmet => last.ret # 0
        /\ last.ret = 0 => TagWritten

\* C19, amended: whenever a precondition of the table writer is not met,
\* the int pcie_tph_set_st writes no steering tag and no register and
\* returns the status of the tag resolution, 0 if the tag was resolved;
\* it returns success for a call in which no steering tag was programmed
\* only when such a precondition is not met.
C19_UnmetPreconditionSkips ==
    IntSetStCall =>
        /\ (tph_cap # 0 /\ PreconditionUnmet) =>
              /\ last.log = <<>>
              /\ ContextUnchanged
              /\ last.ret = IF ResolutionFails THEN ResolutionStatus ELSE 0
        /\ (last.ret = 0 /\ ~TagWritten) => PreconditionUnmet

\* with MSI-X disabled, a call on a device whose requester is enabled
\* returns 0 and leaves the ST table alone
C19_Witness ==
    /\ IntSetStCall
    /\ tph_cap # 0
    /\ ~msix_enabled
    /\ ~ResolutionFails
    /\ last.args[3] = PCI_TPH_REQ_TPH_ONLY
    /\ ReqEn(ctrlReg) = PCI_TPH_REQ_TPH_ONLY
    /\ last.ret = 0
    /\ ~TagWritten

\* the call programmed a steering tag and enabled the requested type
Configured ==
    /\ TagWritten
    /\ last.args[3] # PCI_TPH_REQ_DISABLE
    /\ ReqEn(ctrlReg) = last.args[3]

\* C20: in the documented usage `if (!pcie_tph_set_st(...)) pr_err(...)`
\* the value pcie_tph_set_st (tph.c) returns tests false (is zero) only
\* when configuring the steering tag failed, and tests true whenever it
\* succeeded.
C20_DocumentedUsageCorrect ==
    IntSetStCall =>
        /\ last.ret = 0 => ~Configured
        /\ Configured => last.ret # 0

\* a command line option disables TPH or forces No ST mode
PolicySet == optNoTph \/ optNoStMode

\* C21: when the "notph" or the "nostmode" option is set, pcie_tph_set_st
\* (int and bool variant) writes no steering tag and no control register,
\* whatever the device and the arguments; and with "notph" set
\* pcie_tph_intr_vec_supported returns false.
C21_PolicyBlocksWriter ==
    /\ (last.op = "set_st" /\ PolicySet) =>
          /\ last.log = <<>>
          /\ ctrlReg = last.pre.ctrl
    /\ (last.op = "intr_vec_supported" /\ optNoTph) => last.ret = 0

\* nostmode is forced; a call that meets every other precondition leaves
\* an enabled requester alone
C21_Witness ==
    /\ IntSetStCall
    /\ optNoStMode
    /\ ~optNoTph
    /\ tph_cap # 0
    /\ msix_enabled
    /\ FIELD_GET(PCI_TPH_CAP_INT_VEC, capReg) = 1
    /\ ~ResolutionFails
    /\ rp_completer_support_ok(last.args[3])
    /\ ~SlotOutOfBounds(last.args[1])
    /\ ReqEn(ctrlReg) = PCI_TPH_REQ_TPH_ONLY
    /\ last.log = <<>>

\* C22: pcie_tph_intr_vec_supported returns true if and only if the
\* capability is present, "notph" is not set, MSI-X is enabled and the
\* capability register advertises Interrupt Vector mode; it writes no
\* register.
C22_IntrVecSupportedIff ==
    (last.op = "intr_vec_supported") =>
        /\ last.ret = 1 <=>
              /\ tph_cap # 0
              /\ ~optNoTph
              /\ msix_enabled
              /\ FIELD_GET(PCI_TPH_CAP_INT_VEC, capReg) = 1
        /\ last.ret \in {0, 1}
        /\ last.log = <<>>
        /\ ContextUnchanged

\* true is returned although No ST mode is forced and the requester is on
C22_Witness ==
    /\ last.op = "intr_vec_supported"
    /\ last.ret = 1
    /\ optNoStMode
    /\ ReqEn(ctrlReg) = PCI_TPH_REQ_TPH_ONLY

\* C23: pcie_enable_tph writes mode select and request enable in a single
\* control-register write, and the device becomes enabled only if that
\* write succeeds: if the write fails on the bus, enable returns an error
\* and pcie_tph_enabled stays false.
C23_EnabledOnlyIfWritten ==
    (last.op = "enable" /\ ~last.pre.tph_enabled) =>
        /\ Len(last.log) <= 1
        /\ \A j \in DOMAIN last.log : IsCtrlWrite(last.log[j])
        /\ cfgFault = "ctrl_write" => (last.ret # 0 /\ ~pcie_tph_enabled)

\* pcie_tph_set_st_entry got past its checks and failed writing the tag
EntryWriteFailed ==
    /\ last.op = "set_st_entry"
    /\ tph_cap # 0
    /\ last.pre.tph_enabled
    /\ last.pre.tph_mode # PCI_TPH_NO_ST_MODE
    /\ last.ret # 0

\* C24: after pcie_tph_set_st_entry failed in its tag-write step the device
\* is disabled: pcie_tph_enabled returns false, request enable in the
\* control register is "disabled", and the next pcie_enable_tph is not
\* rejected as already enabled.
C24_FailedEntryWriteDisables ==
    EntryWriteFailed =>
        /\ ~pcie_tph_enabled
        /\ ReqEn(ctrlReg) = PCI_TPH_REQ_DISABLE
        /\ \A mode \in ModeArgs : pcie_enable_tph(Cur, mode).ret # -EBUSY
        /\ (FIELD_GET(PCI_TPH_CAP_INT_VEC, capReg) = 1 /\ ~RootPortUnusable) =>
              pcie_enable_tph(Cur, Mask(PCI_TPH_CAP_INT_VEC)).ret = 0

\* the configuration write of an in-bounds entry failed on a device that
\* was enabled in Interrupt Vector mode
C24_Witness ==
    /\ EntryWriteFailed
    /\ last.ret = PCIBIOS_DEVICE_NOT_FOUND
    /\ last.pre.tph_mode = PCI_TPH_INT_VEC_MODE
    /\ ReqEn(last.pre.ctrl) # PCI_TPH_REQ_DISABLE
    /\ pcie_enable_tph(Cur, Mask(PCI_TPH_CAP_INT_VEC)).ret = 0

\* the control register without its mode select and request enable fields
OutsideBits(reg) ==
    ClearField(PCI_TPH_CTRL_REQ_EN_MASK,
               ClearField(PCI_TPH_CTRL_MODE_SEL_MASK, reg))

\* C25: pcie_tph_set_nostmode / tph_set_dev_nostmode on a device with the
\* capability leaves the control register with mode select = No ST and
\* request enable = TPH only, whatever the register held and whether the
\* requester was enabled; the bits outside the two fields are preserved.
C25_NoStModeForced ==
    (last.op = "set_nostmode" /\ tph_cap # 0) =>
        /\ ModeSel(ctrlReg) = PCI_TPH_NO_ST_MODE
        /\ ReqEn(ctrlReg) = PCI_TPH_REQ_TPH_ONLY
        /\ OutsideBits(ctrlReg) = OutsideBits(last.pre.ctrl)

\* the register held Interrupt Vector mode, extended requests and reserved
\* bits
C25_Witness ==
    /\ last.op = "set_nostmode"
    /\ version = "acpi"
    /\ tph_cap # 0
    /\ ModeSel(last.pre.ctrl) = PCI_TPH_INT_VEC_MODE
    /\ ReqEn(last.pre.ctrl) = PCI_TPH_REQ_EXT_TPH
    /\ OutsideBits(last.pre.ctrl) = 65552
    /\ ctrlReg = 65552 + FIELD_PREP(PCI_TPH_CTRL_REQ_EN_MASK, PCI_TPH_REQ_TPH_ONLY)

\* the capability register does not advertise No ST mode
NoStBitClear == FIELD_GET(PCI_TPH_CAP_NO_ST, capReg) = 0

\* C26: with the No ST bit clear in the capability register the table
\* writer (pcie_tph_set_st, int and bool variant) refuses a steering-tag
\* write: it fails, writes no steering tag and neither disables nor
\* re-enables TPH.
C26_NoStModeMandatory ==
    (/\ last.op = "set_st"
     /\ tph_cap # 0
     /\ NoStBitClear
     /\ version = "acpi" =>
           OtherPreconditionsMet /\ ~SlotOutOfBounds(last.args[1])) =>
        /\ WriterFailed
        /\ ~TagWritten
        /\ last.log = <<>>

\* the call reached the write of a tag into the MSI-X table
MsixWriteReached ==
    /\ IsTagWriterCall
    /\ TableLoc = 2
    /\ OtherPreconditionsMet
    /\ version # "enable" => ~SlotOutOfBounds(last.args[1])

\* the lock events of a run that found the descriptor, and of one that did
\* not
LockedWrite == <<"lock", "rmw", "unlock">>
LockedMiss == <<"lock", "unlock">>

\* C27: every execution of the MSI-X tag write takes the MSI descriptor
\* lock exactly once and has released it on return, whether the descriptor
\* was found or not; the vector control register is read and written only
\* with the lock held; the lock is never released twice or left held.
C27_DescriptorLockBalanced ==
    /\ last.lk \in {<<>>, LockedWrite, LockedMiss}
    /\ MsixWriteReached =>
          last.lk = IF last.args[1] \in msiDescs THEN LockedWrite
                    ELSE LockedMiss
    /\ (\E j \in DOMAIN last.log : last.log[j].k = "vec") =>
          last.lk = LockedWrite

\* the descriptor of the slot is missing
C27_Witness ==
    /\ MsixWriteReached
    /\ version = "acpi"
    /\ last.args[1] \notin msiDescs
    /\ msiDescs # {}
    /\ last.lk = LockedMiss

\* the step just taken wrote a steering tag while requests were enabled
TagWhileEnabled ==
    \E j \in DOMAIN last.log :
        IsTagWrite(last.log[j]) /\ last.log[j].en # PCI_TPH_REQ_DISABLE

\* C28: when the calls on a device are serialized by the callers, no
\* table write puts a steering tag into the table while request enable is
\* on; without serialization two interleaved table writes reach a state in
\* which one writes its tag after the other has re-enabled requests.
C28_SerializedWritesSafe == serialized => ~TagWhileEnabled

\* caller t writes its tag after another caller's call has returned with
\* requests enabled
C28_Witness ==
    /\ ~serialized
    /\ last.op = "conc_tag"
    /\ TagWhileEnabled
    /\ \E u \in Threads \ {last.args[1]} :
          /\ threads[u].pc = "idle"
          /\ threads[u].req = ReqEn(ctrlReg)
          /\ threads[u].req # PCI_TPH_REQ_DISABLE

\* C29: whenever the device is not enabled (tph_enabled = 0) the recorded
\* mode and the recorded request type are both 0; in particular a failing
\* pcie_enable_tph leaves the recorded mode and request type as they were
\* before the call.
C29_DisabledRecordsNothing ==
    /\ ~tph_enabled => (tph_mode = 0 /\ tph_req_type = 0)
    /\ (last.op = "enable" /\ last.ret # 0) =>
          /\ tph_mode = last.pre.tph_mode
          /\ tph_req_type = last.pre.tph_req_type

\* C30: after a successful pcie_tph_set_st_entry on an enabled device the
\* request enable field of the control register equals the request type
\* negotiated by pcie_enable_tph (tph_req_type) and the mode select field
\* equals the mode selected at enable, in Interrupt Vector and in Device
\* Specific mode.
C30_EntryWriteRestoresRequestType ==
    (last.op = "set_st_entry" /\ last.pre.tph_enabled /\ last.ret = 0) =>
        /\ ReqEn(ctrlReg) = tph_req_type
        /\ ModeSel(ctrlReg) = tph_mode

\* C31: for the enable / disable / set_st_entry interface, with every
\* configuration access succeeding, between operations pcie_tph_enabled is
\* true if and only if request enable in the control register is not
\* "disabled", and when it is true the mode select and request enable
\* fields equal the recorded mode and the recorded request type.
C31_FlagAgreesWithHardware ==
    version = "enable" =>
        /\ pcie_tph_enabled <=> ReqEn(ctrlReg) # PCI_TPH_REQ_DISABLE
        /\ pcie_tph_enabled =>
              /\ ModeSel(ctrlReg) = tph_mode
              /\ ReqEn(ctrlReg) = tph_req_type

\* the device was not enabled, or enabled in No ST mode, at the call
NoTagsInUse == ~last.pre.tph_enabled \/ last.pre.tph_mode = PCI_TPH_NO_ST_MODE

\* C32: pcie_tph_set_st_entry on a device that is not enabled returns an
\* error, on a device enabled in No ST mode it returns 0, and in both
\* cases it writes no register and no ST entry and leaves the enable
\* state as it was.
C32_EntryWriteOnlyWhenTagsInUse ==
    (last.op = "set_st_entry" /\ NoTagsInUse) =>
        /\ last.ret = IF last.pre.tph_enabled THEN 0 ELSE -EINVAL
        /\ last.log = <<>>
        /\ last.lk = <<>>
        /\ ContextUnchanged

\* a device enabled in No ST mode keeps its requester on
C32_Witness ==
    /\ last.op = "set_st_entry"
    /\ last.pre.tph_enabled
    /\ last.pre.tph_mode = PCI_TPH_NO_ST_MODE
    /\ ReqEn(ctrlReg) = PCI_TPH_REQ_TPH_ONLY
    /\ TableLoc = 1
    /\ ~SlotOutOfBounds(last.args[1])
    /\ last.ret = 0

BoolSetStCall == last.op = "set_st" /\ version = "bool"

\* C33: with the Interrupt Vector mode bit clear in the capability
\* register, can_set_st rejects the write: the bool pcie_tph_write_st
\* returns false and writes neither the control register nor a steering
\* tag.
C33_IntVecModeRequired ==
    (BoolSetStCall /\ FIELD_GET(PCI_TPH_CAP_INT_VEC, capReg) = 0) =>
        /\ last.ret = 0
        /\ last.log = <<>>

\* the bool writer passed can_set_st with the ST table in the MSI-X table
\* and no MSI descriptor for the slot
BoolDescriptorMissing ==
    /\ BoolSetStCall
    /\ tph_cap # 0
    /\ OtherPreconditionsMet
    /\ ~SlotOutOfBounds(last.args[1])
    /\ TableLoc = 2
    /\ last.args[1] \notin msiDescs

\* C34: in the bool table writer, if the requested slot has no MSI-X
\* descriptor, no vector control register is accessed, pcie_tph_write_st
\* returns false, and TPH is left disabled instead of being re-enabled.
C34_MissingDescriptorFails ==
    BoolDescriptorMissing =>
        /\ \A j \in DOMAIN last.log : last.log[j].k # "vec"
        /\ \A j \in DOMAIN last.lk : last.lk[j] # "rmw"
        /\ last.ret = 0
        /\ ReqEn(ctrlReg) = PCI_TPH_REQ_DISABLE

\* the mode-select encoding of a capability mode bit, -1 for an argument
\* that is not exactly one mode bit
ModeEncoding(mode) ==
    IF mode = Mask(PCI_TPH_CAP_NO_ST) THEN PCI_TPH_NO_ST_MODE
    ELSE IF mode = Mask(PCI_TPH_CAP_INT_VEC) THEN PCI_TPH_INT_VEC_MODE
    ELSE IF mode = Mask(PCI_TPH_CAP_DEV_SPEC) THEN PCI_TPH_DEV_SPEC_MODE
    ELSE -1

\* C35: a successful pcie_enable_tph(mode) records and programs the
\* mode-select encoding of the requested capability bit (No ST -> 0,
\* Interrupt Vector -> 1, Device Specific -> 2), and a mode argument naming
\* several modes or none is rejected with no register write and no change
\* of the recorded state, even when the device supports some of its bits.
C35_EnableProgramsRequestedMode ==
    last.op = "enable" =>
        /\ last.ret = 0 =>
              /\ ModeEncoding(last.args[1]) # -1
              /\ tph_mode = ModeEncoding(last.args[1])
              /\ ModeSel(ctrlReg) = ModeEncoding(last.args[1])
              /\ Len(last.log) = 1
              /\ last.log[1].k = "ctrl"
        /\ ModeEncoding(last.args[1]) = -1 =>
              /\ last.ret < 0
              /\ last.log = <<>>
              /\ ContextUnchanged

\* a disabled device that supports two of the three bits it is asked for
C35_Witness ==
    /\ last.op = "enable"
    /\ last.args[1] = MaxModeArg
    /\ tph_cap # 0
    /\ ~last.pre.tph_enabled
    /\ BitAnd(last.args[1], pcie_tph_modes) \notin {0, last.args[1]}
    /\ ~RootPortUnusable
    /\ last.ret = -EINVAL

\* the call stored a tag, in an ST entry or in a vector control register
TagStored == \E j \in DOMAIN last.log : last.log[j].k \in {"st", "vec"}

\* the call stored a tag in the slot it was given
TagStoredInSlot ==
    \E j \in DOMAIN last.log :
        /\ last.log[j].k = (IF TableLoc = 1 THEN "st" ELSE "vec")
        /\ last.log[j].i = last.args[1]

\* C36: the table writer accepts a slot index exactly when it is less than
\* the number of ST-table entries (ST Table Size field plus one): a slot
\* beyond the table is refused with nothing stored, no ST entry beyond the
\* table in the capability structure is ever written, and a slot inside
\* the table is accepted (its tag is stored where the table has a place
\* for it).
C36_SlotAcceptedIffInRange ==
    (IsTagWriterCall /\ OtherPreconditionsMet) =>
        /\ SlotOutOfBounds(last.args[1]) => (WriterFailed /\ ~TagStored)
        /\ \A j \in DOMAIN last.log :
              last.log[j].k = "st" =>
                  last.log[j].i <= FIELD_GET(PCI_TPH_CAP_ST_MASK, capReg)
        /\ (/\ ~SlotOutOfBounds(last.args[1])
            /\ \/ TableLoc = 1
               \/ TableLoc = 2 /\ last.args[1] \in msiDescs)
              => TagStoredInSlot

\* a call of pcie_tph_set_st of the int or the bool version stored a tag
TagStoredByWriteSt ==
    /\ last.op = "set_st"
    /\ version \in {"acpi", "bool"}
    /\ TagStored

\* the request type the caller of pcie_tph_set_st asked for
RequestedType == IF version = "acpi" THEN last.args[3] ELSE last.args[2]

\* C37: when the table writer re-enables TPH after a successful tag write,
\* it writes mode-select = Interrupt Vector before it writes a non-disabled
\* request-enable: the first control-register write disables requests,
\* every control-register value written before the last one has
\* request-enable = disabled, a value with request-enable not disabled has
\* mode-select = Interrupt Vector, and the mode-select write precedes the
\* final request-enable write.
C37_ModeSelectedBeforeEnable ==
    TagStoredByWriteSt =>
        /\ last.log[1].k = "ctrl"
        /\ ReqEn(last.log[1].v) = PCI_TPH_REQ_DISABLE
        /\ \A j \in DOMAIN last.log :
              (last.log[j].k = "ctrl"
                  /\ ReqEn(last.log[j].v) # PCI_TPH_REQ_DISABLE) =>
                  /\ j = Len(last.log)
                  /\ ModeSel(last.log[j].v) = PCI_TPH_INT_VEC_MODE
        /\ \E j \in 1 .. (Len(last.log) - 1) :
              /\ last.log[j].k = "ctrl"
              /\ ModeSel(last.log[j].v) = PCI_TPH_INT_VEC_MODE
              /\ ReqEn(last.log[j].v) = PCI_TPH_REQ_DISABLE
        /\ last.log[Len(last.log)].k = "ctrl"
        /\ ReqEn(last.log[Len(last.log)].v) = RequestedType

\* requests were enabled in No ST mode before the call and are enabled in
\* Interrupt Vector mode after it
C37_Witness ==
    /\ TagStoredByWriteSt
    /\ ReqEn(last.pre.ctrl) # PCI_TPH_REQ_DISABLE
    /\ ModeSel(last.pre.ctrl) = PCI_TPH_NO_ST_MODE
    /\ ReqEn(ctrlReg) # PCI_TPH_REQ_DISABLE
    /\ ModeSel(ctrlReg) = PCI_TPH_INT_VEC_MODE

\* (old & ~mask) | ((value << shift) & mask) for a field of the register
RmwValue(old, f, value) ==
    IF f = WHOLE_REG THEN value
    ELSE (old % 2 ^ f.shift)
            + (value % 2 ^ f.width) * 2 ^ f.shift
            + (old \div 2 ^ (f.shift + f.width)) * 2 ^ (f.shift + f.width)

\* a value truncated to the width of a field
Truncated(f, value) ==
    IF f = WHOLE_REG THEN value ELSE value % 2 ^ f.width

\* C38: tph_set_reg_field_u32(offset, mask, shift, value) is a
\* read-modify-write of the whole register that changes only the bits
\* under the mask: after success the register is
\* (old & ~mask) | ((value << shift) & mask); without a capability offset,
\* or when the read fails, it returns an error and writes nothing; and
\* tph_get_reg_field_u32 with the same mask and shift then returns the
\* value truncated to the width of the field.
C38_FieldWriteKeepsOtherBits ==
    last.op = "set_reg_field" =>
        /\ tph_cap = 0 =>
              (last.ret = -EINVAL /\ last.log = <<>> /\ ContextUnchanged)
        /\ (tph_cap # 0 /\ cfgFault = "ctrl_read") =>
              (last.ret # 0 /\ last.log = <<>> /\ ContextUnchanged)
        /\ (last.ret = 0) <=> (tph_cap # 0 /\ cfgFault # "ctrl_read")
        /\ last.ret = 0 =>
              /\ ctrlReg = RmwValue(last.pre.ctrl, last.args[1], last.args[2])
              /\ Len(last.log) = 1
              /\ last.log[1].k = "ctrl"
              /\ last.log[1].v = ctrlReg
              /\ tph_get_reg_field_u32(ReadCtrlReg(Cur), last.args[1])
                    = [ret |-> 0,
                       field |-> Truncated(last.args[1], last.args[2])]

\* a value wider than the request enable field written to a register
\* whose other fields and reserved bits are set
C38_Witness ==
    /\ last.op = "set_reg_field"
    /\ last.args[1] = PCI_TPH_CTRL_REQ_EN_MASK
    /\ last.args[2] > 3
    /\ Truncated(last.args[1], last.args[2]) # ReqEn(last.pre.ctrl)
    /\ ModeSel(last.pre.ctrl) # 0
    /\ OutsideBits(last.pre.ctrl) # 0
    /\ last.ret = 0
    /\ ctrlReg # last.pre.ctrl

====
